---------------------------- MODULE Spec2Model ----------------------------
(***************************************************************************)
(* A model of jsinq.Enumerable (src/source/jsinq-enumerable.js): the       *)
(* enumerator protocol (moveNext / current / reset), the operator          *)
(* enumerators built on it, the Hash container, the ordering subsystem and *)
(* the join / groupJoin subsystem.                                         *)
(*                                                                         *)
(* JavaScript values are encoded as integers: a number n >= 0 is itself,   *)
(* the other values have negative codes (Undefined, JSTrue, ...).  Arrays  *)
(* are sequences.  Callbacks (predicates, selectors, comparers) are        *)
(* records [fn |-> name, arg |-> n] interpreted by Predicate, Selector,    *)
(* Equals and Compare.  A sequence object (an Enumerable) is a record      *)
(* whose op field names the operator that built it; an enumerator is a     *)
(* record holding the closure variables of the enumerator object.          *)
(***************************************************************************)
EXTENDS Integers, Sequences, FiniteSets, TLC

\* ------------------------------------------------------------------ values

\* The value of an unassigned variable.
Undefined == -1

\* The boolean true, as stored by distinct in its Hash.
JSTrue == -2

\* The string "constructor": a property every object inherits from
\* Object.prototype, so ({})["constructor"] is never undefined.
StrConstructor == -3

\* The boolean false.
JSFalse == -4

\* The value null.
JSNull == -5

\* The empty string.
StrEmpty == -6

\* String(n) for a number n: the property name a number key is stored under.
StrOf(n) == 0 - (10 + n)

\* typeof value
TypeOf(v) ==
    IF v >= 0 THEN "number"
    ELSE IF v = Undefined THEN "undefined"
    ELSE IF v = JSTrue \/ v = JSFalse THEN "boolean"
    ELSE IF v = JSNull THEN "object"
    ELSE "string"

\* The property name of primitiveItems[key].
PropertyKey(key) == IF TypeOf(key) = "number" THEN StrOf(key) ELSE key

\* Whether a fresh object literal {} already answers to the property name.
InheritedProperty(name) == name = StrConstructor

\* a == b on the encoded values (numbers, and strings that are not numeric).
LooseEquals(a, b) == a = b

\* The null reference, for a closure variable that holds null or an object.
Null == [op |-> "null"]

IsNull(x) == x.op = "null"

\* A JavaScript array held in a variable that may also be null.
Array(items) == [op |-> "Array", items |-> items]

\* --------------------------------------------------------------- callbacks

Fn(name, arg) == [fn |-> name, arg |-> arg]

\* Enumerable.prototype.any, defined with the terminal operators
RECURSIVE any(_, _)

\* predicate(item, index); "except" is the predicate except hands to where:
\* function(item) { return !second.any(function(compare) { ... }); }
Predicate(f, item, index) ==
    CASE f.fn = "lt" -> item < f.arg
      [] f.fn = "even" -> item % 2 = 0
      [] f.fn = "indexLt" -> index < f.arg
      [] f.fn = "true" -> TRUE
      [] f.fn = "throwsOn" -> item > f.arg
      [] f.fn = "except" ->
            ~any(f.second, [fn |-> "except", comparer |-> f.comparer,
                            item |-> item]).r

\* Whether predicate(item) throws instead of returning: the predicate
\* "throwsOn" is x => { if (x == arg) throw ...; return x > arg; }.
Throws(f, item) == f.fn = "throwsOn" /\ item = f.arg

\* EqualityComparer.equals and the custom comparers of the model
Equals(comparer, a, b) ==
    CASE comparer.fn = "default" -> LooseEquals(a, b)
      [] comparer.fn = "modEq" -> (a % comparer.arg) = (b % comparer.arg)

\* Comparer.compare
Compare(comparer, a, b) ==
    CASE comparer.fn = "default" -> IF a < b THEN -1 ELSE IF a > b THEN 1 ELSE 0
      [] comparer.fn = "modCmp" ->
            IF (a % comparer.arg) < (b % comparer.arg) THEN -1
            ELSE IF (a % comparer.arg) > (b % comparer.arg) THEN 1 ELSE 0

\* EqualityComparer.getDefault() and Comparer.getDefault()
Default == Fn("default", 0)

\* The sequence <<0, ..., n-1>>
UpTo(n) == [i \in 1..n |-> i - 1]

\* ------------------------------------------------------------------- Hash

\* A constructor that keeps null for the default comparer.
Hash_defaultIsNull(comparer) ==
    [op |-> "Hash",
     comparer |-> IF comparer.fn = "default" THEN [fn |-> "undefined", arg |-> 0]
                  ELSE comparer,
     primitiveItems |-> <<>>, complexItems |-> <<>>]

\* new Hash(comparer): the constructor's first assignment is overwritten by
\* this.comparer = arguments[0], so the field is whatever was passed.
Hash(comparer) ==
    [op |-> "Hash", comparer |-> comparer,
     primitiveItems |-> <<>>, complexItems |-> <<>>]

\* No argument: arguments[0] is undefined.
NoComparer == Fn("undefined", 0)

\* this.comparer == null
ComparerIsNull(hash) == hash.comparer.fn = "undefined"

\* The callbacks keyExists, get and put hand to lookUp, called with the
\* value when there is one (present) and with no argument otherwise.
\* exists is funcResult[0] of keyExists and put, write is <<funcResult[1]>>
\* when funcResult has a second element, threw is get's "throw false".
CallFunc(func, present) ==
    CASE func.fn = "keyExists" -> [threw |-> FALSE, exists |-> present, write |-> <<>>]
      [] func.fn = "get" ->
            IF ~present
            THEN [threw |-> TRUE, exists |-> FALSE, write |-> <<>>]
            ELSE [threw |-> FALSE, exists |-> TRUE, write |-> <<>>]
      [] func.fn = "put" ->
            IF ~present \/ func.overwrite
            THEN [threw |-> FALSE, exists |-> TRUE, write |-> <<func.newValue>>]
            ELSE [threw |-> FALSE, exists |-> FALSE, write |-> <<>>]

\* Index of the own property of primitiveItems, or 0.
PrimitiveIndex(hash, key) ==
    IF \E i \in 1..Len(hash.primitiveItems) :
            hash.primitiveItems[i].key = PropertyKey(key)
    THEN CHOOSE i \in 1..Len(hash.primitiveItems) :
            hash.primitiveItems[i].key = PropertyKey(key)
    ELSE 0

\* var value = this.primitiveItems[key], i being the index of the own
\* property: an inherited property answers when there is no own one.
PrimitiveValue(hash, key, i) ==
    IF i > 0 THEN hash.primitiveItems[i].element
    ELSE IF InheritedProperty(PropertyKey(key)) THEN PropertyKey(key)
    ELSE Undefined

\* Whether item.key matches key in the loop over complexItems.
ComplexMatch(hash, i, key) ==
    IF ComparerIsNull(hash)
    THEN LooseEquals(hash.complexItems[i].key, key)
    ELSE Equals(hash.comparer, hash.complexItems[i].key, key)

\* Index of the first complex item whose key matches, or 0.
ComplexIndex(hash, key) ==
    IF \E i \in 1..Len(hash.complexItems) : ComplexMatch(hash, i, key)
    THEN CHOOSE i \in 1..Len(hash.complexItems) :
            /\ ComplexMatch(hash, i, key)
            /\ \A j \in 1..(i - 1) : ~ComplexMatch(hash, j, key)
    ELSE 0

\* if (funcResult.length > 1) { <store funcResult[1]> } return funcResult[0];
\* items names the store, name the key it is stored under, i the index of
\* the entry there is (0: none), found the value handed to func (<<>>: none).
\* The outcome is [hash, threw, found, result (funcResult[0])].
lookUp_return(hash, items, name, i, found, funcResult) ==
    [hash |-> IF funcResult.threw \/ funcResult.write = <<>> THEN hash
              ELSE IF i > 0
              THEN [hash EXCEPT ![items][i].element = funcResult.write[1]]
              ELSE [hash EXCEPT ![items] =
                       Append(@, [key |-> name, element |-> funcResult.write[1]])],
     threw |-> funcResult.threw,
     found |-> found,
     result |-> funcResult.exists]

\* The branch of lookUp for primitive keys, given the value read.
lookUp_primitive(hash, key, func, i, value) ==
    lookUp_return(hash, "primitiveItems", PropertyKey(key), i,
                  IF value # Undefined THEN <<value>> ELSE <<>>,
                  CallFunc(func, value # Undefined))

\* The branch of lookUp for the other keys, given the index of the match.
lookUp_complex(hash, key, func, i) ==
    lookUp_return(hash, "complexItems", key, i,
                  IF i > 0 THEN <<hash.complexItems[i].element>> ELSE <<>>,
                  CallFunc(func, i > 0))

\* Hash.lookUp(key, func)
lookUp(hash, key, func) ==
    IF ComparerIsNull(hash) /\ TypeOf(key) \in {"string", "number", "boolean"}
    THEN lookUp_primitive(hash, key, func, PrimitiveIndex(hash, key),
                          PrimitiveValue(hash, key, PrimitiveIndex(hash, key)))
    ELSE lookUp_complex(hash, key, func, ComplexIndex(hash, key))

\* Hash.keyExists(key)
keyExists(hash, key) == lookUp(hash, key, [fn |-> "keyExists"]).result

\* Hash.get(key): <<element>>, or <<>> when the not-found signal is thrown.
get(hash, key) == lookUp(hash, key, [fn |-> "get"]).found

\* Hash.put(key, newValue, overwrite): the hash afterwards and the result.
put(hash, key, newValue, overwrite) ==
    lookUp(hash, key,
           [fn |-> "put", newValue |-> newValue, overwrite |-> overwrite])

\* Hash.empty()
empty(hash) == [hash EXCEPT !.primitiveItems = <<>>, !.complexItems = <<>>]


\* ------------------------------------------------------ sequence objects

\* new Enumerable(value) for an array: an array whose first element is
\* undefined is taken for a scalar and wrapped into a singleton list.
Enumerable(value) ==
    [op |-> "Enumerable",
     value |-> IF Len(value) > 0 /\ value[1] = Undefined THEN <<value>> ELSE value]

\* Enumerable.empty()
Enumerable_empty == [op |-> "Enumerable", value |-> <<>>]

\* Enumerable.range(start, count), count >= 0
range(start, count) == [op |-> "range", start |-> start, count |-> count]

\* Enumerable.repeat(element, count), count >= 0
repeat(element, count) == [op |-> "repeat", element |-> element, count |-> count]

where(this, predicate) == [op |-> "where", source |-> this, predicate |-> predicate]

select(this, selector) == [op |-> "select", source |-> this, selector |-> selector]

selectMany(this, collectionSelector, hasResultSelector) ==
    [op |-> "selectMany", source |-> this,
     collectionSelector |-> collectionSelector,
     hasResultSelector |-> hasResultSelector]

takeWhile(this, predicate) ==
    [op |-> "takeWhile", source |-> this, predicate |-> predicate]

skipWhile(this, predicate) ==
    [op |-> "skipWhile", source |-> this, predicate |-> predicate]

take(this, count) ==
    IF count = 0 THEN Enumerable_empty
    ELSE takeWhile(this, Fn("indexLt", count))

skip(this, count) ==
    IF count = 0 THEN this
    ELSE skipWhile(this, Fn("indexLt", count))

concat(this, second) == [op |-> "concat", source |-> this, second |-> second]

\* distinct() and distinct(comparer): hasComparer = arguments.length > 0
distinct(this, hasComparer, comparer) ==
    [op |-> "distinct", source |-> this,
     hasComparer |-> hasComparer, comparer |-> comparer]

reverse(this) == [op |-> "reverse", source |-> this]

\* A union that hands its own arguments on to distinct.
union_argumentsPassedOn(this, second, hasComparer, comparer) ==
    distinct(concat(this, second), hasComparer, comparer)

\* union(second) and union(second, comparer): hasComparer = arguments.length
\* >= 2; distinct is always called with a comparer.
union(this, second, hasComparer, comparer) ==
    distinct(concat(this, second), TRUE,
             IF hasComparer THEN comparer ELSE Default)

\* Enumerable.prototype.except(second, comparer)
except(this, second, hasComparer, comparer) ==
    where(this, [fn |-> "except", second |-> second,
                 comparer |-> IF hasComparer THEN comparer ELSE Default])

ASCENDING == 1

DESCENDING == -1

\* A chain that puts the new link behind the parent's links.
orderBy_appended(this, direction, keySelector, comparer, parentSelectors) ==
    [op |-> "orderBy", source |-> this,
     selectors |-> parentSelectors \o
                   <<[keySelector |-> keySelector, direction |-> direction,
                      comparer |-> comparer]>>]

\* orderBy(direction) applied to (keySelector, comparer, parentSelectors):
\* the new link is put in front of the parent's links.
orderBy(this, direction, keySelector, comparer, parentSelectors) ==
    [op |-> "orderBy", source |-> this,
     selectors |-> <<[keySelector |-> keySelector, direction |-> direction,
                      comparer |-> comparer]>> \o parentSelectors]

\* ordered.thenBy(keySelector, comparer): orderBy(ASCENDING) called on the
\* source the ordered sequence was built from, with its selectors.
thenBy(ordered, keySelector, comparer) ==
    orderBy(ordered.source, ASCENDING, keySelector, comparer, ordered.selectors)

thenByDescending(ordered, keySelector, comparer) ==
    orderBy(ordered.source, DESCENDING, keySelector, comparer, ordered.selectors)

\* A call after which the sequence it was made on holds the array of
\* selectors of the sequence returned.
thenBy_call_sharedSelectors(objects, s, direction, keySelector, comparer) ==
    Append([objects EXCEPT ![s].selectors =
                <<[keySelector |-> keySelector, direction |-> direction,
                   comparer |-> comparer]>> \o @],
           orderBy(objects[s].source, direction, keySelector, comparer,
                   objects[s].selectors))

\* objects[s].thenBy(keySelector, comparer), or thenByDescending for
\* DESCENDING: the sequence objects after the call, the one returned last.
\* The call assigns to no variable of objects[s], and concat leaves the
\* array of selectors it is called with as it is.
thenBy_call(objects, s, direction, keySelector, comparer) ==
    Append(objects,
           IF direction = ASCENDING
           THEN thenBy(objects[s], keySelector, comparer)
           ELSE thenByDescending(objects[s], keySelector, comparer))

\* groupBy(keySelector, elementSelector, resultSelector, comparer) after the
\* overloads are resolved; the result is the pair <<key, elements>> both for
\* a Grouping and for the model's result selector.
groupBy(this, keySelector, elementSelector, comparer) ==
    [op |-> "groupBy", source |-> this, keySelector |-> keySelector,
     elementSelector |-> elementSelector, comparer |-> comparer]

\* join(group) applied to (second, outerKeySelector, innerKeySelector,
\* resultSelector, comparer); the model's resultSelector builds the pair.
join(group, this, second, outerKeySelector, innerKeySelector, comparer) ==
    [op |-> IF group THEN "groupJoin" ELSE "join", group |-> group,
     source |-> this, second |-> second,
     outerKeySelector |-> outerKeySelector,
     innerKeySelector |-> innerKeySelector, comparer |-> comparer]

\* f(x) for a function of one argument
Function(f, x) ==
    CASE f.fn = "id" -> x
      [] f.fn = "mod" -> x % f.arg
      [] f.fn = "div" -> x \div f.arg
      [] f.fn = "add" -> x + f.arg

\* The function x => g(f(x))
Compose(f, g) == [fn |-> "compose", f |-> f, g |-> g]

\* selector(item, index)
Selector(f, item, index) ==
    CASE f.fn = "id" -> item
      [] f.fn = "mod" -> item % f.arg
      [] f.fn = "div" -> item \div f.arg
      [] f.fn = "add" -> item + f.arg
      [] f.fn = "addIndex" -> item + index
      [] f.fn = "compose" -> Function(f.g, Function(f.f, item))

\* collectionSelector(item, index): an Enumerable
CollectionSelector(f, item, index) ==
    CASE f.fn = "upTo" -> Enumerable(UpTo(item))
      [] f.fn = "repeatIndex" -> repeat(item, index)

\* resultSelector(first, second) of join, groupJoin and selectMany
ResultSelector(first, second) == <<first, second>>


\* ------------------------------------------------------------ enumerators
\* moveNext(e) is [e |-> the enumerator after the call, r |-> the result];
\* current(e) is <<value>>, or <<>> when InvalidOperationException is
\* thrown; reset(e) is the enumerator after the call.

\* Every call of the protocol goes through Protocol, which picks the
\* method of the object at hand.
RECURSIVE Protocol(_, _)

\* sequence.getEnumerator()
getEnumerator(s) == Protocol("getEnumerator", s)

\* enumerator.moveNext()
moveNext(e) == Protocol("moveNext", e)

\* enumerator.current()
current(e) == Protocol("current", e)

\* enumerator.reset()
reset(e) == Protocol("reset", e)

\* while (enumerator.moveNext()) { array.push(enumerator.current()); }
RECURSIVE toArray_while(_, _)
toArray_while(enumerator, array) ==
    LET m == moveNext(enumerator)
    IN IF ~m.r THEN array
       ELSE toArray_while(m.e, array \o current(m.e))

\* Enumerable.prototype.toArray
toArray(s) == toArray_while(getEnumerator(s), <<>>)

\* The exception a current() call ends with.
Throw == <<>>

\* --- new Enumerable(value).getEnumerator()

Enumerable_getEnumerator(s) ==
    [op |-> "Enumerable", value |-> s.value, index |-> -1]

Enumerable_moveNext(e) ==
    [e |-> [e EXCEPT !.index = e.index + 1],
     r |-> e.index + 1 < Len(e.value)]

Enumerable_current(e) ==
    IF e.index < 0 \/ e.index >= Len(e.value) THEN Throw
    ELSE <<e.value[e.index + 1]>>

Enumerable_reset(e) == [e EXCEPT !.index = -1]

\* --- Enumerable.range(start, count).getEnumerator()

range_getEnumerator(s) ==
    [op |-> "range", start |-> s.start, count |-> s.count,
     index |-> -1, hasNext |-> FALSE]

range_moveNext(e) ==
    IF e.index < e.count - 1
    THEN [e |-> [e EXCEPT !.hasNext = TRUE, !.index = e.index + 1], r |-> TRUE]
    ELSE [e |-> [e EXCEPT !.hasNext = FALSE], r |-> FALSE]

range_current(e) == IF e.hasNext THEN <<e.start + e.index>> ELSE Throw

range_reset(e) == [e EXCEPT !.index = -1]

\* --- Enumerable.repeat(element, count).getEnumerator()

repeat_getEnumerator(s) ==
    [op |-> "repeat", element |-> s.element, count |-> s.count,
     index |-> -1, hasNext |-> FALSE]

repeat_moveNext(e) ==
    IF e.index < e.count - 1
    THEN [e |-> [e EXCEPT !.hasNext = TRUE, !.index = e.index + 1], r |-> TRUE]
    ELSE [e |-> [e EXCEPT !.hasNext = FALSE], r |-> FALSE]

repeat_current(e) == IF e.hasNext THEN <<e.element>> ELSE Throw

repeat_reset(e) == [e EXCEPT !.index = -1, !.hasNext = FALSE]

\* --- where(predicate)

where_getEnumerator(s) ==
    [op |-> "where", predicate |-> s.predicate,
     itemEnumerator |-> getEnumerator(s.source),
     current |-> Undefined, hasCurrent |-> FALSE]

\* A loop that gives up at the first element the predicate rejects.
where_while_givesUp(e) ==
    LET m == moveNext(e.itemEnumerator)
        e1 == [e EXCEPT !.itemEnumerator = m.e]
    IN IF ~m.r THEN [e |-> e1, r |-> FALSE]
       ELSE [e |-> [e1 EXCEPT !.current = current(m.e)[1],
                              !.hasCurrent = Predicate(e.predicate,
                                                       current(m.e)[1], Undefined)],
             r |-> Predicate(e.predicate, current(m.e)[1], Undefined)]

\* while (itemEnumerator.moveNext()) { ... }
RECURSIVE where_while(_)
where_while(e) ==
    LET m == moveNext(e.itemEnumerator)
        e1 == [e EXCEPT !.itemEnumerator = m.e]
    IN IF ~m.r THEN [e |-> e1, r |-> FALSE]
       ELSE LET e2 == [e1 EXCEPT !.current = current(m.e)[1]]
            IN IF Predicate(e.predicate, e2.current, Undefined)
               THEN [e |-> [e2 EXCEPT !.hasCurrent = TRUE], r |-> TRUE]
               ELSE where_while(e2)

where_moveNext(e) == where_while([e EXCEPT !.hasCurrent = FALSE])

where_current(e) == IF ~e.hasCurrent THEN Throw ELSE <<e.current>>

where_reset(e) ==
    [e EXCEPT !.itemEnumerator = reset(e.itemEnumerator), !.hasCurrent = FALSE]

\* --- select(selector)

\* An enumerator that reads past a select it is built on.
select_getEnumerator_readsPast(s) ==
    [op |-> "select", selector |-> s.selector,
     itemEnumerator |-> getEnumerator(IF s.source.op = "select"
                                      THEN s.source.source ELSE s.source),
     index |-> -1]

select_getEnumerator(s) ==
    [op |-> "select", selector |-> s.selector,
     itemEnumerator |-> getEnumerator(s.source), index |-> -1]

select_moveNext(e) ==
    LET m == moveNext(e.itemEnumerator)
    IN [e |-> [e EXCEPT !.index = e.index + 1, !.itemEnumerator = m.e],
        r |-> m.r]

select_current(e) ==
    LET c == current(e.itemEnumerator)
    IN IF c = Throw THEN Throw ELSE <<Selector(e.selector, c[1], e.index)>>

select_reset(e) ==
    [e EXCEPT !.itemEnumerator = reset(e.itemEnumerator), !.index = -1]

\* --- takeWhile(predicate)

takeWhile_getEnumerator(s) ==
    [op |-> "takeWhile", predicate |-> s.predicate,
     enumerator |-> getEnumerator(s.source),
     isOperational |-> TRUE, index |-> 0]

\* A moveNext that asks the parent again after it has returned false.
takeWhile_moveNext_reopens(e) ==
    LET m == moveNext(e.enumerator)
        e1 == [e EXCEPT !.enumerator = m.e]
    IN IF ~m.r
       THEN [e |-> [e1 EXCEPT !.isOperational = FALSE], r |-> FALSE]
       ELSE LET p == Predicate(e.predicate, current(m.e)[1], e.index)
            IN [e |-> [e1 EXCEPT !.isOperational = p, !.index = e.index + 1],
                r |-> p]

takeWhile_moveNext(e) ==
    IF e.isOperational
    THEN LET m == moveNext(e.enumerator)
             e1 == [e EXCEPT !.enumerator = m.e]
         IN IF ~m.r
            THEN [e |-> [e1 EXCEPT !.isOperational = FALSE], r |-> FALSE]
            ELSE LET p == Predicate(e.predicate, current(m.e)[1], e.index)
                 IN [e |-> [e1 EXCEPT !.isOperational = p,
                                      !.index = e.index + 1],
                     r |-> p]
    ELSE [e |-> e, r |-> FALSE]

takeWhile_current(e) ==
    IF ~e.isOperational THEN Throw ELSE current(e.enumerator)

takeWhile_reset(e) ==
    [e EXCEPT !.enumerator = reset(e.enumerator),
              !.isOperational = TRUE, !.index = 0]

\* --- skipWhile(predicate)

skipWhile_getEnumerator(s) ==
    [op |-> "skipWhile", predicate |-> s.predicate,
     enumerator |-> getEnumerator(s.source),
     isInitialized |-> FALSE, index |-> 0]

\* while ((canMoveNext = enumerator.moveNext()) &&
\*        predicate(enumerator.current(), index++)) { }
RECURSIVE skipWhile_while(_)
skipWhile_while(e) ==
    LET m == moveNext(e.enumerator)
        e1 == [e EXCEPT !.enumerator = m.e]
    IN IF ~m.r THEN [e |-> e1, r |-> FALSE]
       ELSE LET e2 == [e1 EXCEPT !.index = e.index + 1]
            IN IF Predicate(e.predicate, current(m.e)[1], e.index)
               THEN skipWhile_while(e2)
               ELSE [e |-> e2, r |-> TRUE]

\* A moveNext that runs the loop on every call.
skipWhile_moveNext_rescans(e) ==
    LET w == skipWhile_while(e)
    IN [e |-> [w.e EXCEPT !.isInitialized = TRUE], r |-> w.r]

skipWhile_moveNext(e) ==
    IF ~e.isInitialized
    THEN LET w == skipWhile_while(e)
         IN [e |-> [w.e EXCEPT !.isInitialized = TRUE], r |-> w.r]
    ELSE LET m == moveNext(e.enumerator)
         IN [e |-> [e EXCEPT !.enumerator = m.e], r |-> m.r]

skipWhile_current(e) == current(e.enumerator)

skipWhile_reset(e) ==
    [e EXCEPT !.enumerator = reset(e.enumerator),
              !.isInitialized = FALSE, !.index = 0]

\* --- concat(second): enumerator refers to firstEnumerator or to
\* secondEnumerator, by name.

concat_getEnumerator(s) ==
    [op |-> "concat",
     firstEnumerator |-> getEnumerator(s.source),
     secondEnumerator |-> getEnumerator(s.second),
     enumerator |-> "firstEnumerator", canSwap |-> TRUE]

\* A moveNext that goes back to the first enumerator, rewound, when the
\* second one is used up.
concat_moveNext_swapsBack(e) ==
    LET m == moveNext(e[e.enumerator])
        e1 == [e EXCEPT ![e.enumerator] = m.e]
    IN IF m.r THEN [e |-> e1, r |-> TRUE]
       ELSE IF e.enumerator = "firstEnumerator"
       THEN LET m2 == moveNext(e1.secondEnumerator)
            IN [e |-> [e1 EXCEPT !.enumerator = "secondEnumerator",
                                 !.secondEnumerator = m2.e],
                r |-> m2.r]
       ELSE [e |-> [e1 EXCEPT !.enumerator = "firstEnumerator",
                              !.firstEnumerator = reset(e.firstEnumerator)],
             r |-> FALSE]

concat_moveNext(e) ==
    LET m == moveNext(e[e.enumerator])
        e1 == [e EXCEPT ![e.enumerator] = m.e]
    IN IF ~m.r
       THEN IF e.canSwap
            THEN LET m2 == moveNext(e1.secondEnumerator)
                 IN [e |-> [e1 EXCEPT !.enumerator = "secondEnumerator",
                                      !.secondEnumerator = m2.e],
                     r |-> m2.r]
            ELSE [e |-> e1, r |-> FALSE]
       ELSE [e |-> e1, r |-> TRUE]

concat_current(e) == current(e[e.enumerator])

concat_reset(e) ==
    [e EXCEPT !.canSwap = TRUE,
              !.firstEnumerator = reset(e.firstEnumerator),
              !.secondEnumerator = reset(e.secondEnumerator),
              !.enumerator = "firstEnumerator"]

\* --- distinct(comparer)

distinct_getEnumerator(s) ==
    [op |-> "distinct",
     enumerator |-> getEnumerator(s.source),
     hash |-> IF s.hasComparer THEN Hash(s.comparer) ELSE Hash(NoComparer)]

\* while (enumerator.moveNext()) { if (hash.put(...)) return true; }
RECURSIVE distinct_while(_)
distinct_while(e) ==
    LET m == moveNext(e.enumerator)
        e1 == [e EXCEPT !.enumerator = m.e]
    IN IF ~m.r THEN [e |-> e1, r |-> FALSE]
       ELSE LET p == put(e.hash, current(m.e)[1], JSTrue, FALSE)
                e2 == [e1 EXCEPT !.hash = p.hash]
            IN IF p.result THEN [e |-> e2, r |-> TRUE]
               ELSE distinct_while(e2)

distinct_moveNext(e) == distinct_while(e)

distinct_current(e) == current(e.enumerator)

\* A reset that rewinds the parent and keeps the hash.
distinct_reset_keepsHash(e) ==
    [e EXCEPT !.enumerator = reset(e.enumerator)]

distinct_reset(e) ==
    [e EXCEPT !.enumerator = reset(e.enumerator), !.hash = empty(e.hash)]


\* --- selectMany(collectionSelector, resultSelector)

selectMany_getEnumerator(s) ==
    [op |-> "selectMany", collectionSelector |-> s.collectionSelector,
     hasResultSelector |-> s.hasResultSelector,
     itemEnumerator |-> getEnumerator(s.source),
     item |-> Undefined, subItemEnumerator |-> Null,
     hasCurrent |-> FALSE, index |-> 0]

\* A loop that ends the traversal at an empty sub-sequence.
selectMany_while_stopsAtEmpty(e, noMoveNext) ==
    LET ms == IF IsNull(e.subItemEnumerator) THEN [e |-> Null, r |-> FALSE]
              ELSE moveNext(e.subItemEnumerator)
        e1 == [e EXCEPT !.subItemEnumerator = ms.e]
    IN IF ms.r THEN [e |-> [e1 EXCEPT !.hasCurrent = TRUE], r |-> TRUE]
       ELSE LET mi == moveNext(e1.itemEnumerator)
                e2 == [e1 EXCEPT !.itemEnumerator = mi.e]
            IN IF ~mi.r THEN [e |-> e2, r |-> FALSE]
               ELSE LET item == current(mi.e)[1]
                        m2 == moveNext(getEnumerator(
                                  CollectionSelector(e.collectionSelector,
                                                     item, e.index)))
                    IN [e |-> [e2 EXCEPT !.item = item, !.index = e.index + 1,
                                         !.subItemEnumerator = m2.e,
                                         !.hasCurrent = m2.r],
                        r |-> m2.r]

\* One pass of while (true) { ... }, with the local noMoveNext.
RECURSIVE selectMany_while(_, _)
selectMany_while(e, noMoveNext) ==
    LET ms == IF IsNull(e.subItemEnumerator) THEN [e |-> Null, r |-> FALSE]
              ELSE moveNext(e.subItemEnumerator)
        e1 == [e EXCEPT !.subItemEnumerator = ms.e]
    IN IF ~ms.r
       THEN LET mi == moveNext(e1.itemEnumerator)
                e2 == [e1 EXCEPT !.itemEnumerator = mi.e]
            IN IF ~mi.r THEN [e |-> e2, r |-> FALSE]
               ELSE LET item == current(mi.e)[1]
                        sub == getEnumerator(
                                  CollectionSelector(e.collectionSelector,
                                                     item, e.index))
                        m2 == moveNext(sub)
                        e3 == [e2 EXCEPT !.item = item, !.index = e.index + 1,
                                         !.subItemEnumerator = m2.e]
                    IN IF m2.r
                       THEN [e |-> [e3 EXCEPT !.hasCurrent = TRUE], r |-> TRUE]
                       ELSE selectMany_while(e3, FALSE)
       ELSE IF noMoveNext
            THEN [e |-> [e1 EXCEPT !.hasCurrent = TRUE], r |-> TRUE]
            ELSE LET m2 == moveNext(e1.subItemEnumerator)
                     e3 == [e1 EXCEPT !.subItemEnumerator = m2.e]
                 IN IF m2.r
                    THEN [e |-> [e3 EXCEPT !.hasCurrent = TRUE], r |-> TRUE]
                    ELSE selectMany_while(e3, FALSE)

selectMany_moveNext(e) == selectMany_while([e EXCEPT !.hasCurrent = FALSE], TRUE)

selectMany_current(e) ==
    IF ~e.hasCurrent THEN Throw
    ELSE LET c == current(e.subItemEnumerator)
         IN IF c = Throw THEN Throw
            ELSE IF e.hasResultSelector THEN <<ResultSelector(e.item, c[1])>>
            ELSE c

selectMany_reset(e) ==
    [e EXCEPT !.hasCurrent = FALSE, !.subItemEnumerator = Null,
              !.item = Undefined,
              !.itemEnumerator = reset(e.itemEnumerator), !.index = 0]

\* --- reverse()

\* Array.prototype.reverse
Array_reverse(array) == [i \in 1..Len(array) |-> array[Len(array) + 1 - i]]

\* enumerated counts the getEnumerator() calls the enumerator has made on
\* the sequence it buffers; here and below it is kept for the record, the
\* code has no such variable.
reverse_getEnumerator(s) ==
    [op |-> "reverse", source |-> s.source, enumerator |-> Null,
     enumerated |-> 0]

reverse_moveNext(e) ==
    LET e1 == IF IsNull(e.enumerator)
              THEN [e EXCEPT !.enumerator =
                       getEnumerator(Enumerable(Array_reverse(toArray(e.source)))),
                             !.enumerated = @ + 1]
              ELSE e
        m == moveNext(e1.enumerator)
    IN [e |-> [e1 EXCEPT !.enumerator = m.e], r |-> m.r]

reverse_current(e) ==
    IF IsNull(e.enumerator) THEN Throw ELSE current(e.enumerator)

reverse_reset(e) ==
    IF ~IsNull(e.enumerator)
    THEN [e EXCEPT !.enumerator = reset(e.enumerator)]
    ELSE e

\* --- orderBy / orderByDescending / thenBy / thenByDescending

\* A loop that goes through the links from index 0 upwards.
RECURSIVE orderBy_for_fromFront(_, _, _, _, _)
orderBy_for_fromFront(selectors, i, a, b, called) ==
    IF i < 1 THEN [result |-> 0, called |-> called]
    ELSE LET link == selectors[Len(selectors) + 1 - i]
             keyA == Selector(link.keySelector, a, Undefined)
             keyB == Selector(link.keySelector, b, Undefined)
             compareResult == Compare(link.comparer, keyA, keyB)
         IN IF compareResult # 0
            THEN [result |-> compareResult * link.direction,
                  called |-> Append(called, link)]
            ELSE orderBy_for_fromFront(selectors, i - 1, a, b,
                                       Append(called, link))

\* for (var i = selectors.length - 1; i >= 0; i--) { ... } return 0; in the
\* comparison function handed to array.sort: the first non-zero result
\* decides.  called lists the links whose selector and comparer were
\* called, in the order of the calls.
RECURSIVE orderBy_for(_, _, _, _, _)
orderBy_for(selectors, i, a, b, called) ==
    IF i < 1 THEN [result |-> 0, called |-> called]
    ELSE LET keyA == Selector(selectors[i].keySelector, a, Undefined)
             keyB == Selector(selectors[i].keySelector, b, Undefined)
             compareResult == Compare(selectors[i].comparer, keyA, keyB)
         IN IF compareResult # 0
            THEN [result |-> compareResult * selectors[i].direction,
                  called |-> Append(called, selectors[i])]
            ELSE orderBy_for(selectors, i - 1, a, b,
                             Append(called, selectors[i]))

\* The value of the comparison function handed to array.sort.
orderBy_compare(selectors, i, a, b) ==
    orderBy_for(selectors, i, a, b, <<>>).result

\* Array.prototype.sort(comparefn) as the language defines it since
\* ECMAScript 2019: a stable sort.  x goes behind the last element that
\* does not compare greater than it.
RECURSIVE Array_sort_insert(_, _, _)
Array_sort_insert(sorted, x, selectors) ==
    IF sorted = <<>> THEN <<x>>
    ELSE IF orderBy_compare(selectors, Len(selectors),
                            sorted[Len(sorted)], x) > 0
         THEN Append(Array_sort_insert(SubSeq(sorted, 1, Len(sorted) - 1),
                                       x, selectors),
                     sorted[Len(sorted)])
         ELSE Append(sorted, x)

RECURSIVE Array_sort(_, _)
Array_sort(array, selectors) ==
    IF array = <<>> THEN <<>>
    ELSE Array_sort_insert(
            Array_sort(SubSeq(array, 1, Len(array) - 1), selectors),
            array[Len(array)], selectors)

orderBy_lazyInitialize(e) ==
    [e EXCEPT !.itemEnumerator =
        getEnumerator(Enumerable(Array_sort(toArray(e.source), e.selectors))),
              !.enumerated = @ + 1]

\* An enumerator that sorts when it is created.
orderBy_getEnumerator_eager(s) ==
    orderBy_lazyInitialize(
        [op |-> "orderBy", source |-> s.source, selectors |-> s.selectors,
         itemEnumerator |-> Null, enumerated |-> 0])

orderBy_getEnumerator(s) ==
    [op |-> "orderBy", source |-> s.source, selectors |-> s.selectors,
     itemEnumerator |-> Null, enumerated |-> 0]

orderBy_moveNext(e) ==
    LET e1 == IF IsNull(e.itemEnumerator) THEN orderBy_lazyInitialize(e) ELSE e
        m == moveNext(e1.itemEnumerator)
    IN [e |-> [e1 EXCEPT !.itemEnumerator = m.e], r |-> m.r]

orderBy_current(e) ==
    IF IsNull(e.itemEnumerator) THEN Throw ELSE current(e.itemEnumerator)

\* A reset that lets go of the sorted array.
orderBy_reset_forgets(e) == [e EXCEPT !.itemEnumerator = Null]

orderBy_reset(e) ==
    IF ~IsNull(e.itemEnumerator)
    THEN [e EXCEPT !.itemEnumerator = reset(e.itemEnumerator)]
    ELSE e


\* --- Hash.toArray and the bucket arrays kept in a Hash

\* A property name that is an array index: String(n).
IsIndexName(name) == name <= StrOf(0)

\* for (var key in this.primitiveItems): index names in ascending numeric
\* order, then the other names in insertion order.
RECURSIVE ForIn_indexNames(_)
ForIn_indexNames(items) ==
    IF items = <<>> THEN <<>>
    ELSE LET first == CHOOSE i \in 1..Len(items) :
                        \A j \in 1..Len(items) : items[i].key >= items[j].key
         IN <<items[first]>> \o
            ForIn_indexNames(SubSeq(items, 1, first - 1) \o
                             SubSeq(items, first + 1, Len(items)))

Hash_toArray(hash) ==
    ForIn_indexNames(SelectSeq(hash.primitiveItems,
                               LAMBDA it : IsIndexName(it.key))) \o
    SelectSeq(hash.primitiveItems, LAMBDA it : ~IsIndexName(it.key)) \o
    hash.complexItems

\* A bucket that keeps only the element pushed last.
push_replaces(hash, key, value) == put(hash, key, <<value>>, TRUE).hash

\* var array = hash.get(key); array.push(value): the array is the object
\* the Hash holds, so the binding of key changes in place.
push(hash, key, value) ==
    put(hash, key, Append(get(hash, key)[1], value), TRUE).hash

\* --- groupBy(keySelector, elementSelector, resultSelector, comparer)

groupBy_getEnumerator(s) ==
    [op |-> "groupBy", source |-> s.source, keySelector |-> s.keySelector,
     elementSelector |-> s.elementSelector, comparer |-> s.comparer,
     resultSet |-> Null, index |-> -1, enumerated |-> 0]

\* while (itemEnumerator.moveNext()) { ... } of lazyInitialize
RECURSIVE groupBy_while(_, _, _)
groupBy_while(e, itemEnumerator, hash) ==
    LET m == moveNext(itemEnumerator)
    IN IF ~m.r THEN hash
       ELSE LET cur == current(m.e)[1]
                key == Selector(e.keySelector, cur, Undefined)
                elem == Selector(e.elementSelector, cur, Undefined)
            IN groupBy_while(e, m.e,
                  IF keyExists(hash, key)
                  THEN push(hash, key, elem)
                  ELSE put(hash, key, <<elem>>, FALSE).hash)

\* A result set that lists the groups from the last one to the first.
groupBy_lazyInitialize_lastFirst(e) ==
    [e EXCEPT !.resultSet =
        Array(Array_reverse(Hash_toArray(
                groupBy_while(e, getEnumerator(e.source), Hash(e.comparer))))),
              !.enumerated = @ + 1]

groupBy_lazyInitialize(e) ==
    [e EXCEPT !.resultSet =
        Array(Hash_toArray(groupBy_while(e, getEnumerator(e.source),
                                         Hash(e.comparer)))),
              !.enumerated = @ + 1]

groupBy_moveNext(e) ==
    LET e1 == IF IsNull(e.resultSet) THEN groupBy_lazyInitialize(e) ELSE e
    IN [e |-> [e1 EXCEPT !.index = e.index + 1],
        r |-> e.index + 1 < Len(e1.resultSet.items)]

groupBy_current(e) ==
    IF e.index < 0 \/ e.index >= Len(e.resultSet.items) THEN Throw
    ELSE LET cur == e.resultSet.items[e.index + 1]
         IN <<ResultSelector(cur.key, Enumerable(cur.element).value)>>

groupBy_reset(e) == [e EXCEPT !.index = -1]

\* --- join(group): join and groupJoin

join_getEnumerator(s) ==
    [op |-> s.op, group |-> s.group, second |-> s.second,
     outerKeySelector |-> s.outerKeySelector,
     innerKeySelector |-> s.innerKeySelector, comparer |-> s.comparer,
     hash |-> Null, enumerator |-> getEnumerator(s.source),
     hasNext |-> FALSE, firstElement |-> Undefined,
     secondElement |-> Undefined, secondList |-> Null, index |-> -1,
     enumerated |-> 0]

\* A hash of the inner side that keeps the first element of every key only.
RECURSIVE join_lazyInitialize_firstOnly(_, _, _)
join_lazyInitialize_firstOnly(e, secondEnumerator, hash) ==
    LET m == moveNext(secondEnumerator)
    IN IF ~m.r THEN hash
       ELSE join_lazyInitialize_firstOnly(e, m.e,
               put(hash, Selector(e.innerKeySelector, current(m.e)[1], Undefined),
                   <<current(m.e)[1]>>, FALSE).hash)

\* while (secondEnumerator.moveNext()) { ... } of lazyInitialize
RECURSIVE join_lazyInitialize_while(_, _, _)
join_lazyInitialize_while(e, secondEnumerator, hash) ==
    LET m == moveNext(secondEnumerator)
    IN IF ~m.r THEN hash
       ELSE LET cur == current(m.e)[1]
                key == Selector(e.innerKeySelector, cur, Undefined)
                p == put(hash, key, <<cur>>, FALSE)
            IN join_lazyInitialize_while(e, m.e,
                  IF ~p.result THEN push(p.hash, key, cur) ELSE p.hash)

join_lazyInitialize(e) ==
    [e EXCEPT !.hash = join_lazyInitialize_while(e, getEnumerator(e.second),
                                                 Hash(e.comparer)),
              !.enumerated = @ + 1]

\* A loop that moves the outer enumerator once more after a match.
RECURSIVE join_while_readsAhead(_)
join_while_readsAhead(e) ==
    LET m == moveNext(e.enumerator)
        e1 == [e EXCEPT !.enumerator = m.e]
    IN IF ~m.r THEN [e |-> e1, r |-> FALSE]
       ELSE LET cur == current(m.e)[1]
                key == Selector(e.outerKeySelector, cur, Undefined)
            IN IF keyExists(e.hash, key)
               THEN LET list == get(e.hash, key)[1]
                    IN [e |-> [e1 EXCEPT !.enumerator = moveNext(m.e).e,
                                         !.secondList = Array(list),
                                         !.secondElement = list[1],
                                         !.index = 0,
                                         !.hasNext = TRUE,
                                         !.firstElement = cur],
                        r |-> TRUE]
               ELSE join_while_readsAhead(e1)

\* while (enumerator.moveNext()) { ... } of the join branch
RECURSIVE join_while(_)
join_while(e) ==
    LET m == moveNext(e.enumerator)
        e1 == [e EXCEPT !.enumerator = m.e]
    IN IF ~m.r THEN [e |-> e1, r |-> FALSE]
       ELSE LET cur == current(m.e)[1]
                key == Selector(e.outerKeySelector, cur, Undefined)
            IN IF keyExists(e.hash, key)
               THEN LET list == get(e.hash, key)[1]
                    IN [e |-> [e1 EXCEPT !.secondList = Array(list),
                                         !.secondElement = list[1],
                                         !.index = 0,
                                         !.hasNext = TRUE,
                                         !.firstElement = cur],
                        r |-> TRUE]
               ELSE join_while(e1)

\* moveNext once the hash is there.
join_moveNext_initialized(e) ==
    IF e.group
    THEN LET m == moveNext(e.enumerator)
             e1 == [e EXCEPT !.enumerator = m.e, !.hasNext = m.r]
         IN IF m.r
            THEN LET cur == current(m.e)[1]
                     key == Selector(e.outerKeySelector, cur, Undefined)
                 IN [e |-> [e1 EXCEPT
                              !.firstElement = cur,
                              !.secondElement =
                                 IF keyExists(e.hash, key)
                                 THEN Enumerable(get(e.hash, key)[1])
                                 ELSE Enumerable_empty],
                     r |-> TRUE]
            ELSE [e |-> e1, r |-> FALSE]
    ELSE IF ~IsNull(e.secondList)
         THEN IF e.index + 1 < Len(e.secondList.items)
              THEN [e |-> [e EXCEPT
                             !.index = e.index + 1,
                             !.secondElement =
                                 e.secondList.items[e.index + 2],
                             !.hasNext = TRUE],
                    r |-> TRUE]
              ELSE join_while([e EXCEPT !.index = e.index + 1,
                                        !.hasNext = FALSE])
         ELSE join_while([e EXCEPT !.hasNext = FALSE])

\* if (hash == null) { lazyInitialize(); } and the rest of moveNext
join_moveNext(e) ==
    join_moveNext_initialized(
        IF IsNull(e.hash) THEN join_lazyInitialize(e) ELSE e)

join_current(e) ==
    IF ~e.hasNext THEN Throw
    ELSE <<ResultSelector(e.firstElement,
                          IF e.group THEN e.secondElement.value
                          ELSE e.secondElement)>>

join_reset(e) == [e EXCEPT !.enumerator = reset(e.enumerator)]

\* --- the enumerator protocol, by the kind of enumerator

getEnumerator_method(s) ==
    CASE s.op = "Enumerable" -> Enumerable_getEnumerator(s)
      [] s.op = "range" -> range_getEnumerator(s)
      [] s.op = "repeat" -> repeat_getEnumerator(s)
      [] s.op = "where" -> where_getEnumerator(s)
      [] s.op = "select" -> select_getEnumerator(s)
      [] s.op = "selectMany" -> selectMany_getEnumerator(s)
      [] s.op = "takeWhile" -> takeWhile_getEnumerator(s)
      [] s.op = "skipWhile" -> skipWhile_getEnumerator(s)
      [] s.op = "concat" -> concat_getEnumerator(s)
      [] s.op = "distinct" -> distinct_getEnumerator(s)
      [] s.op = "reverse" -> reverse_getEnumerator(s)
      [] s.op = "orderBy" -> orderBy_getEnumerator(s)
      [] s.op = "groupBy" -> groupBy_getEnumerator(s)
      [] s.op \in {"join", "groupJoin"} -> join_getEnumerator(s)

moveNext_method(e) ==
    CASE e.op = "Enumerable" -> Enumerable_moveNext(e)
      [] e.op = "range" -> range_moveNext(e)
      [] e.op = "repeat" -> repeat_moveNext(e)
      [] e.op = "where" -> where_moveNext(e)
      [] e.op = "select" -> select_moveNext(e)
      [] e.op = "selectMany" -> selectMany_moveNext(e)
      [] e.op = "takeWhile" -> takeWhile_moveNext(e)
      [] e.op = "skipWhile" -> skipWhile_moveNext(e)
      [] e.op = "concat" -> concat_moveNext(e)
      [] e.op = "distinct" -> distinct_moveNext(e)
      [] e.op = "reverse" -> reverse_moveNext(e)
      [] e.op = "orderBy" -> orderBy_moveNext(e)
      [] e.op = "groupBy" -> groupBy_moveNext(e)
      [] e.op \in {"join", "groupJoin"} -> join_moveNext(e)

current_method(e) ==
    CASE e.op = "Enumerable" -> Enumerable_current(e)
      [] e.op = "range" -> range_current(e)
      [] e.op = "repeat" -> repeat_current(e)
      [] e.op = "where" -> where_current(e)
      [] e.op = "select" -> select_current(e)
      [] e.op = "selectMany" -> selectMany_current(e)
      [] e.op = "takeWhile" -> takeWhile_current(e)
      [] e.op = "skipWhile" -> skipWhile_current(e)
      [] e.op = "concat" -> concat_current(e)
      [] e.op = "distinct" -> distinct_current(e)
      [] e.op = "reverse" -> reverse_current(e)
      [] e.op = "orderBy" -> orderBy_current(e)
      [] e.op = "groupBy" -> groupBy_current(e)
      [] e.op \in {"join", "groupJoin"} -> join_current(e)

reset_method(e) ==
    CASE e.op = "Enumerable" -> Enumerable_reset(e)
      [] e.op = "range" -> range_reset(e)
      [] e.op = "repeat" -> repeat_reset(e)
      [] e.op = "where" -> where_reset(e)
      [] e.op = "select" -> select_reset(e)
      [] e.op = "selectMany" -> selectMany_reset(e)
      [] e.op = "takeWhile" -> takeWhile_reset(e)
      [] e.op = "skipWhile" -> skipWhile_reset(e)
      [] e.op = "concat" -> concat_reset(e)
      [] e.op = "distinct" -> distinct_reset(e)
      [] e.op = "reverse" -> reverse_reset(e)
      [] e.op = "orderBy" -> orderBy_reset(e)
      [] e.op = "groupBy" -> groupBy_reset(e)
      [] e.op \in {"join", "groupJoin"} -> join_reset(e)

Protocol(method, x) ==
    CASE method = "getEnumerator" -> getEnumerator_method(x)
      [] method = "moveNext" -> moveNext_method(x)
      [] method = "current" -> current_method(x)
      [] method = "reset" -> reset_method(x)

\* ----------------------------------------------------- terminal operators
\* A call returns Return(value) or ends with an exception: Raise(name),
\* "callback" naming whatever a callback of the caller threw.

Return(v) == [exception |-> "none", value |-> v]

\* var x = value; ...: the rest of a function, given a local variable.
Let(value, Rest(_)) == Rest(value)

Raise(x) == [exception |-> x, value |-> Undefined]

\* A callback that decrements before it compares: --index == 0.
elementAt_function_preDecrement(c, item) ==
    [c |-> [c EXCEPT !.element = item, !.index = c.index - 1],
     threw |-> FALSE, r |-> c.index - 1 = 0]

\* elementAt's callback: element = item; return index-- == 0;
\* c holds the variables the callback closes over.
elementAt_function(c, item) ==
    [c |-> [c EXCEPT !.element = item, !.index = c.index - 1],
     threw |-> FALSE, r |-> c.index = 0]

\* first's callback: if (predicate(item)) { element = item; return true; }
\* return false;
first_function(c, item) ==
    IF Throws(c.predicate, item) THEN [c |-> c, threw |-> TRUE, r |-> FALSE]
    ELSE IF Predicate(c.predicate, item, Undefined)
    THEN [c |-> [c EXCEPT !.element = item], threw |-> FALSE, r |-> TRUE]
    ELSE [c |-> c, threw |-> FALSE, r |-> FALSE]

\* last's callback: if (!hasPredicate || predicate(item)) { last = item;
\* isEmpty = false; } return false;
last_function(c, item) ==
    IF c.hasPredicate /\ Throws(c.predicate, item)
    THEN [c |-> c, threw |-> TRUE, r |-> FALSE]
    ELSE IF ~c.hasPredicate \/ Predicate(c.predicate, item, Undefined)
    THEN [c |-> [c EXCEPT !.last = item, !.isEmpty = FALSE],
          threw |-> FALSE, r |-> FALSE]
    ELSE [c |-> c, threw |-> FALSE, r |-> FALSE]

\* except's inner callback: return comparer.equals(item, compare);
except_function(c, compare) ==
    [c |-> c, threw |-> FALSE, r |-> Equals(c.comparer, c.item, compare)]

\* predicate(enumerator.current()) in any, for the callbacks above
any_predicate(c, item) ==
    CASE c.fn = "elementAt" -> elementAt_function(c, item)
      [] c.fn = "except" -> except_function(c, item)
      [] c.fn = "first" -> first_function(c, item)
      [] c.fn = "last" -> last_function(c, item)

\* while (enumerator.moveNext()) { if (predicate(...)) { return true; } }
\* return false;  The outcome holds the callback's variables, the result
\* and whether the callback threw.
RECURSIVE any_while(_, _)
any_while(enumerator, c) ==
    Let(moveNext(enumerator), LAMBDA m :
        IF ~m.r THEN [c |-> c, threw |-> FALSE, r |-> FALSE]
        ELSE Let(any_predicate(c, current(m.e)[1]), LAMBDA p :
                 IF p.threw \/ p.r THEN p ELSE any_while(m.e, p.c)))

\* Enumerable.prototype.any(predicate)
any(this, c) == any_while(getEnumerator(this), c)

\* Enumerable.prototype.elementAt(index)
elementAt(this, index) ==
    Let(any(this, [fn |-> "elementAt", index |-> index, element |-> Undefined]),
        LAMBDA found :
            IF ~found.r THEN Raise("ArgumentOutOfRangeException")
            ELSE Return(found.c.element))

\* try { return <call>; } catch (e) { return defaultValue; }
TryOrDefault(call, defaultValue) ==
    IF call.exception # "none" THEN Return(defaultValue) ELSE call

\* Enumerable.prototype.elementAtOrDefault(index, defaultValue)
elementAtOrDefault(this, index, defaultValue) ==
    TryOrDefault(elementAt(this, index), defaultValue)

\* Enumerable.prototype.first() and first(predicate)
first(this, hasPredicate, predicate) ==
    IF ~hasPredicate
    THEN Let(elementAt(this, 0), LAMBDA call :
             IF call.exception # "none"
             THEN Raise("InvalidOperationException")
             ELSE call)
    ELSE Let(any(this, [fn |-> "first", predicate |-> predicate,
                        element |-> Undefined]),
             LAMBDA found :
                 IF found.threw THEN Raise("callback")
                 ELSE IF ~found.r THEN Raise("InvalidOperationException")
                 ELSE Return(found.c.element))

\* Enumerable.prototype.firstOrDefault(defaultValue) and
\* firstOrDefault(predicate, defaultValue)
firstOrDefault(this, hasPredicate, predicate, defaultValue) ==
    TryOrDefault(first(this, hasPredicate, predicate), defaultValue)

\* Enumerable.prototype.last() and last(predicate)
last_(this, hasPredicate, predicate) ==
    Let(any(this, [fn |-> "last", hasPredicate |-> hasPredicate,
                   predicate |-> predicate,
                   last |-> Undefined, isEmpty |-> TRUE]),
        LAMBDA found :
            IF found.threw THEN Raise("callback")
            ELSE IF found.c.isEmpty THEN Raise("InvalidOperationException")
            ELSE Return(found.c.last))

\* Enumerable.prototype.lastOrDefault(defaultValue) and
\* lastOrDefault(predicate, defaultValue)
lastOrDefault(this, hasPredicate, predicate, defaultValue) ==
    TryOrDefault(last_(this, hasPredicate, predicate), defaultValue)

\* The test single makes once it has read the first element:
\* if (enumerator.moveNext() || (hasPredicate && !predicate(current)))
single_if(movedAgain, current_, hasPredicate, predicate) ==
    IF movedAgain THEN Raise("InvalidOperationException")
    ELSE IF hasPredicate /\ Throws(predicate, current_) THEN Raise("callback")
    ELSE IF hasPredicate /\ ~Predicate(predicate, current_, Undefined)
    THEN Raise("InvalidOperationException")
    ELSE Return(current_)

\* A single that does not look for a second element.
single_noSecondLook(this, hasPredicate, predicate) ==
    Let(moveNext(getEnumerator(this)), LAMBDA m :
        IF ~m.r THEN Raise("InvalidOperationException")
        ELSE single_if(FALSE, current(m.e)[1], hasPredicate, predicate))

\* Enumerable.prototype.single() and single(predicate)
single(this, hasPredicate, predicate) ==
    Let(moveNext(getEnumerator(this)), LAMBDA m :
        IF ~m.r THEN Raise("InvalidOperationException")
        ELSE single_if(moveNext(m.e).r, current(m.e)[1],
                       hasPredicate, predicate))

\* Enumerable.prototype.singleOrDefault(defaultValue) and
\* singleOrDefault(predicate, defaultValue)
singleOrDefault(this, hasPredicate, predicate, defaultValue) ==
    TryOrDefault(single(this, hasPredicate, predicate), defaultValue)

\* while (firstEnumerator.moveNext() && secondEnumerator.moveNext()) {
\*     if (!comparer.equals(...)) { return false; } } return true;
RECURSIVE sequenceEqual_while(_, _, _)
sequenceEqual_while(firstEnumerator, secondEnumerator, comparer) ==
    Let(moveNext(firstEnumerator), LAMBDA m1 :
        IF ~m1.r THEN TRUE
        ELSE Let(moveNext(secondEnumerator), LAMBDA m2 :
                 IF ~m2.r THEN TRUE
                 ELSE IF ~Equals(comparer, current(m1.e)[1], current(m2.e)[1])
                 THEN FALSE
                 ELSE sequenceEqual_while(m1.e, m2.e, comparer)))

\* Enumerable.prototype.sequenceEqual(second) and sequenceEqual(second,
\* comparer); sameObject says whether second is the object this is.
sequenceEqual(this, second, sameObject, hasComparer, comparer) ==
    IF sameObject THEN Return(TRUE)
    ELSE Return(sequenceEqual_while(getEnumerator(this), getEnumerator(second),
                                    IF hasComparer THEN comparer ELSE Default))

\* func(running, current) of aggregate: "concat" is running.concat([current]),
\* "count" is running + 1 and "last" is current.
Accumulate(func, running, current_) ==
    CASE func.fn = "concat" -> Append(running, current_)
      [] func.fn = "count" -> running + 1
      [] func.fn = "last" -> current_

\* while (enumerator.moveNext()) { running = func(running, ...current()); }
RECURSIVE aggregate_while(_, _, _)
aggregate_while(enumerator, running, func) ==
    Let(moveNext(enumerator), LAMBDA m :
        IF ~m.r THEN running
        ELSE aggregate_while(m.e, Accumulate(func, running, current(m.e)[1]),
                             func))

\* Enumerable.prototype.aggregate(func) and aggregate(seed, func); the
\* result selector is the identity.
aggregate(this, hasSeed, seed, func) ==
    Let(moveNext(getEnumerator(this)), LAMBDA m :
        IF ~m.r THEN Raise("InvalidOperationException")
        ELSE IF hasSeed
        THEN Return(aggregate_while(reset(m.e), seed, func))
        ELSE Return(aggregate_while(m.e, current(m.e)[1], func)))

\* ------------------------------------------------------------- the inputs


\* Longest backing array of a source that is driven step by step.
MaxLen == 2

\* Number of moveNext / current / reset calls a consumer makes.
MaxSteps == 5

\* moveNext / current / reset calls made on two enumerators of one sequence.
MaxPairSteps == 4

\* Longest backing array of a source that is traversed in full.
MaxFullLen == 3

\* Element values of the arrays driven step by step.
Values == {0, 1}

\* Element values of the arrays traversed in full.
FullValues == {0, 1, 2, 3}

\* All arrays over a set of values, up to a length.
ArraysOf(values, maxLen) ==
    UNION {[1..n -> values] : n \in 0..maxLen}

\* Array-backed, range and repeat sources.
Sources ==
    {Enumerable(a) : a \in ArraysOf(Values, MaxLen)}
    \cup {range(0, n) : n \in 0..MaxLen}
    \cup {repeat(1, n) : n \in 0..MaxLen}

ArraySources == {Enumerable(a) : a \in ArraysOf(Values, MaxLen)}

\* One operator applied to a source.
UnaryQueries(sources) ==
    UNION {
        {where(s, Fn("lt", 1)),
         select(s, Fn("addIndex", 0)),
         selectMany(s, Fn("upTo", 0), FALSE),
         selectMany(s, Fn("repeatIndex", 0), TRUE),
         takeWhile(s, Fn("lt", 1)),
         take(s, 1),
         skipWhile(s, Fn("lt", 1)),
         skip(s, 1),
         distinct(s, FALSE, Default),
         distinct(s, TRUE, Default),
         reverse(s),
         orderBy(s, DESCENDING, Fn("id", 0), Default, <<>>),
         thenBy(orderBy(s, ASCENDING, Fn("mod", 1), Default, <<>>),
                Fn("id", 0), Default),
         groupBy(s, Fn("mod", 1), Fn("id", 0), Default),
         groupBy(s, Fn("id", 0), Fn("add", 1), Default)} : s \in sources}

\* One operator applied to two array-backed sources.
BinaryQueries(sources) ==
    UNION {
        {concat(s, t),
         join(FALSE, s, t, Fn("id", 0), Fn("id", 0), Default),
         join(FALSE, s, t, Fn("mod", 1), Fn("mod", 1), Default),
         join(TRUE, s, t, Fn("id", 0), Fn("id", 0), Default),
         join(TRUE, s, t, Fn("mod", 1), Fn("mod", 1), Default)}
        : s \in sources, t \in sources}

Queries ==
    Sources \cup UnaryQueries(Sources) \cup BinaryQueries(ArraySources)

\* The sequences two enumerators are taken from.
PairQueries ==
    LET a == Enumerable(<<1, 0>>)
        b == Enumerable(<<0, 0>>)
    IN {a, range(0, 2), where(a, Fn("lt", 1)), concat(a, b),
        distinct(b, FALSE, Default), reverse(a),
        orderBy(a, ASCENDING, Fn("id", 0), Default, <<>>),
        groupBy(a, Fn("mod", 1), Fn("id", 0), Default),
        join(FALSE, a, b, Fn("mod", 1), Fn("mod", 1), Default),
        join(TRUE, a, b, Fn("id", 0), Fn("id", 0), Default),
        selectMany(a, Fn("upTo", 0), FALSE),
        takeWhile(a, Fn("lt", 2))}

\* ------------------------------------------------------ the state machine

VARIABLES
    input,    \* how the consumer built the sequence
    seq,      \* the sequence the consumer holds
    want,     \* how many enumerators the consumer asks for
    heap,     \* the enumerator objects created so far
    handle,   \* handle[h]: the object the h-th getEnumerator() returned
    solo,     \* solo[h]: an enumerator of seq given the calls made on h only
    hist,     \* hist[h]: what the moveNext calls on h returned so far
              \* (closed: one returned false since the last reset;
              \* rewound: reset was called after a moveNext call)
    last,     \* the last call and what it returned
    steps,    \* calls made so far
    pc,       \* "ready", or "done" after a full traversal
    result    \* the array a full traversal returned

vars == <<input, seq, want, heap, handle, solo, hist, last, steps, pc, result>>

NoCall ==
    [h |-> 0, op |-> "none", moved |-> FALSE, value |-> Throw,
     soloMoved |-> FALSE, soloValue |-> Throw]

InitWith(queries, n) ==
    /\ input = [kind |-> "steps"]
    /\ seq \in queries
    /\ want = n
    /\ heap = <<>>
    /\ handle = <<>>
    /\ solo = <<>>
    /\ hist = <<>>
    /\ last = NoCall
    /\ steps = 0
    /\ pc = "ready"
    /\ result = <<>>

Init == InitWith(Queries, 1)

InitPair == InitWith(PairQueries, 2)

\* A getEnumerator() that hands out the object it made first.
NewEnumerator_shared(objects, s) ==
    IF objects = <<>>
    THEN [heap |-> <<getEnumerator(s)>>, ref |-> 1]
    ELSE [heap |-> objects, ref |-> 1]

\* sequence.getEnumerator(): "return new function() { ... }" makes a new
\* object with its own closure variables on every call.
NewEnumerator(objects, s) ==
    [heap |-> Append(objects, getEnumerator(s)), ref |-> Len(objects) + 1]

GetEnumeratorAction ==
    /\ pc = "ready"
    /\ Len(handle) < want
    /\ \E n \in {NewEnumerator(heap, seq)} :
          /\ heap' = n.heap
          /\ handle' = Append(handle, n.ref)
    /\ solo' = Append(solo, getEnumerator(seq))
    /\ hist' = Append(hist, [everTrue |-> FALSE, lastMove |-> "none",
                             sinceReset |-> FALSE, closed |-> FALSE,
                             rewound |-> FALSE, moves |-> 0])
    /\ last' = [NoCall EXCEPT !.h = Len(handle) + 1, !.op = "getEnumerator"]
    /\ UNCHANGED <<input, seq, want, steps, pc, result>>

MoveNextAction(h) ==
    /\ pc = "ready"
    /\ steps < (IF want = 1 THEN MaxSteps ELSE MaxPairSteps)
    /\ \E m \in {moveNext(heap[handle[h]])}, sm \in {moveNext(solo[h])} :
          /\ heap' = [heap EXCEPT ![handle[h]] = m.e]
          /\ solo' = [solo EXCEPT ![h] = sm.e]
          /\ hist' = [hist EXCEPT
                        ![h].everTrue = @ \/ m.r,
                        ![h].lastMove = IF m.r THEN "true" ELSE "false",
                        ![h].sinceReset = @ \/ m.r,
                        ![h].closed = @ \/ ~m.r,
                        ![h].moves = @ + 1]
          /\ last' = [NoCall EXCEPT !.h = h, !.op = "moveNext",
                                    !.moved = m.r, !.soloMoved = sm.r]
    /\ steps' = steps + 1
    /\ UNCHANGED <<input, seq, want, handle, pc, result>>

CurrentAction(h) ==
    /\ pc = "ready"
    /\ steps < (IF want = 1 THEN MaxSteps ELSE MaxPairSteps)
    /\ last' = [NoCall EXCEPT !.h = h, !.op = "current",
                              !.value = current(heap[handle[h]]),
                              !.soloValue = current(solo[h])]
    /\ steps' = steps + 1
    /\ UNCHANGED <<input, seq, want, heap, handle, solo, hist, pc, result>>

ResetAction(h) ==
    /\ pc = "ready"
    /\ steps < (IF want = 1 THEN MaxSteps ELSE MaxPairSteps)
    /\ heap' = [heap EXCEPT ![handle[h]] = reset(@)]
    /\ solo' = [solo EXCEPT ![h] = reset(@)]
    /\ hist' = [hist EXCEPT ![h].sinceReset = FALSE, ![h].closed = FALSE,
                             ![h].rewound = @ \/ hist[h].moves > 0]
    /\ last' = [NoCall EXCEPT !.h = h, !.op = "reset"]
    /\ steps' = steps + 1
    /\ UNCHANGED <<input, seq, want, handle, pc, result>>

Next ==
    \/ GetEnumeratorAction
    \/ \E h \in 1..Len(handle) : MoveNextAction(h)
    \/ \E h \in 1..Len(handle) : CurrentAction(h)
    \/ \E h \in 1..Len(handle) : ResetAction(h)

Spec == Init /\ [][Next]_vars

SpecPair == InitPair /\ [][Next]_vars


\* ------------------------------------------------------- full traversals

\* Longest chain of orderBy / thenBy links.
MaxChain == 2

\* Element values of the two sides of a join.
JoinValues == {0, 1, 2}

\* Element values handed to distinct: numbers and the string "constructor".
DistinctValues == {0, 1, 2, StrConstructor}

\* The links a chain is made of: (keySelector, direction, comparer).
Links ==
    {[keySelector |-> k, direction |-> d, comparer |-> Default] :
        k \in {Fn("mod", 2), Fn("div", 2)}, d \in {ASCENDING, DESCENDING}}

Chains == UNION {[1..n -> Links] : n \in 1..MaxChain}

OrderInputs ==
    {[kind |-> "order", array |-> a, chain |-> c] :
        a \in ArraysOf(FullValues, MaxFullLen), c \in Chains}

JoinInputs ==
    {[kind |-> "join", group |-> g, outer |-> a, inner |-> b,
      outerKeySelector |-> k[1], innerKeySelector |-> k[2], comparer |-> k[3]] :
        g \in BOOLEAN,
        a \in ArraysOf(JoinValues, MaxFullLen),
        b \in ArraysOf(JoinValues, MaxFullLen),
        k \in {<<Fn("id", 0), Fn("id", 0), Default>>,
               <<Fn("id", 0), Fn("add", 1), Fn("modEq", 2)>>,
               <<Fn("div", 2), Fn("mod", 2), Default>>}}

DistinctInputs ==
    {[kind |-> "distinct", array |-> a, hasComparer |-> c[1], comparer |-> c[2]] :
        a \in ArraysOf(DistinctValues, MaxFullLen),
        c \in {<<FALSE, Default>>, <<TRUE, Default>>}}
    \cup
    {[kind |-> "distinct", array |-> a, hasComparer |-> TRUE,
      comparer |-> Fn("modEq", 2)] : a \in ArraysOf(FullValues, MaxFullLen)}

\* Longest backing array of each of two sources that are combined.
MaxPartLen == 2

UnionInputs ==
    {[kind |-> "union", first |-> a, second |-> b,
      hasComparer |-> c[1], comparer |-> c[2]] :
        a \in ArraysOf(DistinctValues, MaxPartLen),
        b \in ArraysOf(DistinctValues, MaxPartLen),
        c \in {<<FALSE, Default>>, <<TRUE, Default>>}}
    \cup
    {[kind |-> "union", first |-> a, second |-> b,
      hasComparer |-> TRUE, comparer |-> Fn("modEq", 2)] :
        a \in ArraysOf(FullValues, MaxPartLen),
        b \in ArraysOf(FullValues, MaxPartLen)}

ExceptInputs ==
    {[kind |-> "except", first |-> a, second |-> b,
      hasComparer |-> c[1], comparer |-> c[2]] :
        a \in ArraysOf(FullValues, MaxPartLen),
        b \in ArraysOf(FullValues, MaxPartLen),
        c \in {<<FALSE, Default>>, <<TRUE, Fn("modEq", 2)>>}}

\* source.selectMany(collectionSelector) and
\* source.selectMany(collectionSelector, resultSelector)
SelectManyInputs ==
    {[kind |-> "selectMany", array |-> a, collectionSelector |-> c,
      hasResultSelector |-> r] :
        a \in ArraysOf(JoinValues, MaxFullLen),
        c \in {Fn("upTo", 0), Fn("repeatIndex", 0)},
        r \in BOOLEAN}

\* source.groupBy(keySelector, elementSelector, comparer)
GroupByInputs ==
    {[kind |-> "groupBy", array |-> a, keySelector |-> k,
      elementSelector |-> e, comparer |-> c] :
        a \in ArraysOf(FullValues, MaxFullLen),
        k \in {Fn("id", 0), Fn("mod", 2), Fn("div", 2)},
        e \in {Fn("id", 0), Fn("add", 1)},
        c \in {Default, Fn("modEq", 2)}}
    \cup
    {[kind |-> "groupBy", array |-> a, keySelector |-> Fn("id", 0),
      elementSelector |-> Fn("id", 0), comparer |-> Default] :
        a \in ArraysOf(DistinctValues, MaxFullLen)}

WhereInputs ==
    {[kind |-> "where", array |-> a, predicate |-> p] :
        a \in ArraysOf(FullValues, MaxFullLen),
        p \in {Fn("lt", 2), Fn("even", 0)}}

\* source.select(f).select(g) for functions f and g of one argument
SelectInputs ==
    {[kind |-> "select", array |-> a, f |-> f, g |-> g] :
        a \in ArraysOf(FullValues, MaxFullLen),
        f \in {Fn("add", 1), Fn("mod", 2), Fn("div", 2)},
        g \in {Fn("add", 1), Fn("mod", 2), Fn("div", 2)}}

\* source.orderBy(k1).thenBy(k2)... for the first n links of a chain
RECURSIVE BuildOrder(_, _, _)
BuildOrder(array, chain, n) ==
    IF n = 1
    THEN orderBy(Enumerable(array), chain[1].direction, chain[1].keySelector,
                 chain[1].comparer, <<>>)
    ELSE IF chain[n].direction = ASCENDING
         THEN thenBy(BuildOrder(array, chain, n - 1),
                     chain[n].keySelector, chain[n].comparer)
         ELSE thenByDescending(BuildOrder(array, chain, n - 1),
                               chain[n].keySelector, chain[n].comparer)

\* The calls the consumer makes to build the sequence.
Build(in) ==
    CASE in.kind = "order" -> BuildOrder(in.array, in.chain, Len(in.chain))
      [] in.kind = "join" ->
            join(in.group, Enumerable(in.outer), Enumerable(in.inner),
                 in.outerKeySelector, in.innerKeySelector, in.comparer)
      [] in.kind = "distinct" ->
            distinct(Enumerable(in.array), in.hasComparer, in.comparer)
      [] in.kind = "where" -> where(Enumerable(in.array), in.predicate)
      [] in.kind = "select" -> select(select(Enumerable(in.array), in.f), in.g)
      [] in.kind = "union" ->
            union(Enumerable(in.first), Enumerable(in.second),
                  in.hasComparer, in.comparer)
      [] in.kind = "selectMany" ->
            selectMany(Enumerable(in.array), in.collectionSelector,
                       in.hasResultSelector)
      [] in.kind = "groupBy" ->
            groupBy(Enumerable(in.array), in.keySelector, in.elementSelector,
                    in.comparer)
      [] in.kind = "except" ->
            except(Enumerable(in.first), Enumerable(in.second),
                   in.hasComparer, in.comparer)

InitFull ==
    /\ \/ input \in OrderInputs
       \/ input \in JoinInputs
       \/ input \in DistinctInputs
       \/ input \in UnionInputs
       \/ input \in WhereInputs
       \/ input \in SelectInputs
       \/ input \in ExceptInputs
       \/ input \in SelectManyInputs
       \/ input \in GroupByInputs
    /\ seq = Build(input)
    /\ want = 0
    /\ heap = <<>>
    /\ handle = <<>>
    /\ solo = <<>>
    /\ hist = <<>>
    /\ last = NoCall
    /\ steps = 0
    /\ pc = "ready"
    /\ result = <<>>

\* seq.toArray()
ToArrayAction ==
    /\ pc = "ready"
    /\ result' = toArray(seq)
    /\ pc' = "done"
    /\ UNCHANGED <<input, seq, want, heap, handle, solo, hist, last, steps>>

\* The seeds and functions aggregate is called with: <<hasSeed, seed, func>>.
AggregateArguments ==
    <<(<<TRUE, <<>>, Fn("concat", 0)>>), (<<TRUE, 0, Fn("count", 0)>>),
      (<<FALSE, Undefined, Fn("last", 0)>>)>>

\* seq.aggregate(seed, func) or seq.aggregate(func)
AggregateAction ==
    /\ pc = "ready"
    /\ \E i \in 1..Len(AggregateArguments) :
          last' = [op |-> "aggregate",
                   hasSeed |-> AggregateArguments[i][1],
                   seed |-> AggregateArguments[i][2],
                   func |-> AggregateArguments[i][3],
                   outcome |-> aggregate(seq, AggregateArguments[i][1],
                                         AggregateArguments[i][2],
                                         AggregateArguments[i][3])]
    /\ pc' = "aggregated"
    /\ UNCHANGED <<input, seq, want, heap, handle, solo, hist, steps, result>>

NextFull ==
    \/ ToArrayAction
    \/ AggregateAction

SpecFull == InitFull /\ [][NextFull]_vars


\* ----------------------------------------- calls of terminal operators

\* Element values of the sources a terminal operator is called on.
CallValues == {1, 2, 3}

CallSources == {Enumerable(a) : a \in ArraysOf(CallValues, MaxFullLen)}

\* The default values handed to the ...OrDefault operators.
Defaults == {0}

\* (hasPredicate, predicate): no predicate, or one of three predicates, the
\* last of which throws on the element 2.
CallPredicates ==
    {<<FALSE, Fn("true", 0)>>, <<TRUE, Fn("lt", 2)>>, <<TRUE, Fn("even", 0)>>,
     <<TRUE, Fn("throwsOn", 2)>>}

InitCall ==
    /\ input = [kind |-> "none"]
    /\ seq \in CallSources
    /\ want = 0
    /\ heap = <<>>
    /\ handle = <<>>
    /\ solo = <<>>
    /\ hist = <<>>
    /\ last = NoCall
    /\ steps = 0
    /\ pc = "ready"
    /\ result = <<>>

\* The consumer makes the call in and gets outcome.
Called(in, outcome) ==
    /\ pc = "ready"
    /\ input' = in
    /\ result' = outcome
    /\ pc' = "done"
    /\ UNCHANGED <<seq, want, heap, handle, solo, hist, last, steps>>

ElementAtAction ==
    \E i \in -1..(MaxFullLen + 1) :
        Called([kind |-> "elementAt", index |-> i], elementAt(seq, i))

ElementAtOrDefaultAction ==
    \E i \in -1..(MaxFullLen + 1), d \in Defaults :
        Called([kind |-> "elementAtOrDefault", index |-> i, defaultValue |-> d],
               elementAtOrDefault(seq, i, d))

FirstOrDefaultAction ==
    \E p \in CallPredicates, d \in Defaults :
        Called([kind |-> "firstOrDefault", hasPredicate |-> p[1],
                predicate |-> p[2], defaultValue |-> d],
               firstOrDefault(seq, p[1], p[2], d))

LastOrDefaultAction ==
    \E p \in CallPredicates, d \in Defaults :
        Called([kind |-> "lastOrDefault", hasPredicate |-> p[1],
                predicate |-> p[2], defaultValue |-> d],
               lastOrDefault(seq, p[1], p[2], d))

SingleAction ==
    \E p \in CallPredicates :
        Called([kind |-> "single", hasPredicate |-> p[1], predicate |-> p[2]],
               single(seq, p[1], p[2]))

SingleOrDefaultAction ==
    \E p \in CallPredicates, d \in Defaults :
        Called([kind |-> "singleOrDefault", hasPredicate |-> p[1],
                predicate |-> p[2], defaultValue |-> d],
               singleOrDefault(seq, p[1], p[2], d))

SequenceEqualAction ==
    \E b \in ArraysOf(CallValues, MaxFullLen), same \in BOOLEAN,
       c \in {<<FALSE, Default>>, <<TRUE, Fn("modEq", 2)>>} :
        /\ same => b = seq.value
        /\ Called([kind |-> "sequenceEqual", second |-> b, sameObject |-> same,
                   hasComparer |-> c[1], comparer |-> c[2]],
                  sequenceEqual(seq, Enumerable(b), same, c[1], c[2]))

NextCall ==
    \/ ElementAtAction
    \/ ElementAtOrDefaultAction
    \/ FirstOrDefaultAction
    \/ LastOrDefaultAction
    \/ SingleAction
    \/ SingleOrDefaultAction
    \/ SequenceEqualAction

SpecCall == InitCall /\ [][NextCall]_vars


\* ------------------------------------------------------ calls on a Hash
\* heap[1] is the Hash; hist is the bindings a reader of the contract
\* expects it to hold: one per key put, in the order the keys came.

\* Number of calls made on a Hash.
MaxHashSteps == 3

\* The comparers a Hash is constructed with: none, the default one, and
\* equality modulo 2.
HashComparers == {NoComparer, Default, Fn("modEq", 2)}

\* The keys handed to a Hash: numbers, without a custom comparer the
\* string "constructor", and without any comparer null, a key that is
\* neither a string nor a number nor a boolean.
HashKeys(hash) ==
    IF hash.comparer.fn = "modEq" THEN {0, 1, 2}
    ELSE IF ComparerIsNull(hash) THEN {0, 1, StrConstructor, JSNull}
    ELSE {0, 1, StrConstructor}

\* The values stored: a number, and the falsy values 0, false, "", null
\* and undefined.
HashValues == {1, 0, JSFalse, StrEmpty, JSNull, Undefined}

\* Whether two keys are one key to the Hash.
SameKey(hash, a, b) ==
    IF ComparerIsNull(hash) THEN a = b ELSE Equals(hash.comparer, a, b)

\* The expected binding of key: <<element>>, or <<>> when there is none.
Bound(hash, bindings, key) ==
    IF \E i \in 1..Len(bindings) : SameKey(hash, bindings[i].key, key)
    THEN <<bindings[CHOOSE i \in 1..Len(bindings) :
                        SameKey(hash, bindings[i].key, key)].element>>
    ELSE <<>>

\* The expected bindings after put(key, value, overwrite).
BoundAfterPut(hash, bindings, key, value, overwrite) ==
    IF Bound(hash, bindings, key) = <<>>
    THEN Append(bindings, [key |-> key, element |-> value])
    ELSE IF overwrite
    THEN [i \in 1..Len(bindings) |->
            IF SameKey(hash, bindings[i].key, key)
            THEN [bindings[i] EXCEPT !.element = value]
            ELSE bindings[i]]
    ELSE bindings

InitHash ==
    /\ input \in {[kind |-> "hash", comparer |-> c] : c \in HashComparers}
    /\ seq = Null
    /\ want = 0
    /\ heap = <<Hash(input.comparer)>>
    /\ handle = <<>>
    /\ solo = <<>>
    /\ hist = <<>>
    /\ last = NoCall
    /\ steps = 0
    /\ pc = "ready"
    /\ result = <<>>

\* hash.put(key, value, overwrite)
PutAction ==
    /\ steps < MaxHashSteps
    /\ \E key \in HashKeys(heap[1]), value \in HashValues, overwrite \in BOOLEAN :
          /\ heap' = <<put(heap[1], key, value, overwrite).hash>>
          /\ hist' = BoundAfterPut(heap[1], hist, key, value, overwrite)
          /\ last' = [op |-> "put", key |-> key, value |-> value,
                      overwrite |-> overwrite,
                      returned |-> put(heap[1], key, value, overwrite).result,
                      before |-> heap[1]]
    /\ steps' = steps + 1
    /\ UNCHANGED <<input, seq, want, handle, solo, pc, result>>

\* hash.get(key): returned is <<element>>, or <<>> for the not-found signal
GetAction ==
    /\ steps < MaxHashSteps
    /\ \E key \in HashKeys(heap[1]) :
          /\ heap' = <<lookUp(heap[1], key, [fn |-> "get"]).hash>>
          /\ last' = [op |-> "get", key |-> key,
                      returned |-> get(heap[1], key), before |-> heap[1]]
    /\ steps' = steps + 1
    /\ UNCHANGED <<input, seq, want, handle, solo, hist, pc, result>>

\* hash.keyExists(key)
KeyExistsAction ==
    /\ steps < MaxHashSteps
    /\ \E key \in HashKeys(heap[1]) :
          /\ heap' = <<lookUp(heap[1], key, [fn |-> "keyExists"]).hash>>
          /\ last' = [op |-> "keyExists", key |-> key,
                      returned |-> keyExists(heap[1], key),
                      before |-> heap[1]]
    /\ steps' = steps + 1
    /\ UNCHANGED <<input, seq, want, handle, solo, hist, pc, result>>

\* hash.empty()
EmptyAction ==
    /\ steps < MaxHashSteps
    /\ heap' = <<empty(heap[1])>>
    /\ hist' = <<>>
    /\ last' = [op |-> "empty"]
    /\ steps' = steps + 1
    /\ UNCHANGED <<input, seq, want, handle, solo, pc, result>>

NextHash ==
    \/ PutAction
    \/ GetAction
    \/ KeyExistsAction
    \/ EmptyAction

SpecHash == InitHash /\ [][NextHash]_vars


\* ------------------------------------------- calls on ordered sequences
\* heap holds the ordered sequences built so far; handle[s] tells how
\* sequence s was built (the sequence thenBy was called on, 0 for orderBy,
\* and the links given, in the order they were given); hist[s] lists the
\* traversals of s: what toArray returned and how many sequences there
\* were at that time.

\* Number of calls made on ordered sequences.
MaxOrderSteps == 3

\* Number of ordered sequences built.
MaxOrdered == 2

\* Element values of the source that is ordered.
OrderedValues == {0, 1, 2}

InitOrdered ==
    /\ input \in {[kind |-> "ordered", array |-> a] :
                    a \in ArraysOf(OrderedValues, MaxPartLen)}
    /\ seq = Enumerable(input.array)
    /\ want = 0
    /\ heap = <<>>
    /\ handle = <<>>
    /\ solo = <<>>
    /\ hist = <<>>
    /\ last = NoCall
    /\ steps = 0
    /\ pc = "ready"
    /\ result = <<>>

\* seq.orderBy(keySelector) or seq.orderByDescending(keySelector)
OrderByAction ==
    /\ heap = <<>>
    /\ \E link \in Links :
          /\ heap' = <<orderBy(seq, link.direction, link.keySelector,
                                link.comparer, <<>>)>>
          /\ handle' = <<[parent |-> 0, chain |-> <<link>>]>>
    /\ hist' = <<(<<>>)>>
    /\ UNCHANGED <<input, seq, want, solo, last, steps, pc, result>>

\* heap[s].thenBy(keySelector) or heap[s].thenByDescending(keySelector)
ThenByAction(s) ==
    /\ steps < MaxOrderSteps
    /\ Len(heap) < MaxOrdered
    /\ \E link \in Links :
          /\ heap' = thenBy_call(heap, s, link.direction, link.keySelector,
                                  link.comparer)
          /\ handle' = Append(handle,
                               [parent |-> s,
                                chain |-> Append(handle[s].chain, link)])
    /\ hist' = Append(hist, <<>>)
    /\ steps' = steps + 1
    /\ UNCHANGED <<input, seq, want, solo, last, pc, result>>

\* heap[s].toArray()
TraverseAction(s) ==
    /\ steps < MaxOrderSteps
    /\ \E array \in {toArray(heap[s])} :
          /\ result' = array
          /\ hist' = [hist EXCEPT ![s] =
                          Append(@, [result |-> array, objects |-> Len(heap)])]
    /\ steps' = steps + 1
    /\ UNCHANGED <<input, seq, want, heap, handle, solo, last, pc>>

NextOrdered ==
    \/ OrderByAction
    \/ \E s \in 1..Len(heap) : ThenByAction(s)
    \/ \E s \in 1..Len(heap) : TraverseAction(s)

SpecOrdered == InitOrdered /\ [][NextOrdered]_vars

\* ------------------------------------------- arrays and who holds them
\* heap holds the array objects: heap[1] is the array the source was
\* constructed over, which new Enumerable(value) keeps by reference, and
\* every toArray() call adds the array it returns.  Array.prototype.sort
\* and Array.prototype.reverse work in place, on the object they are
\* called on.

\* Number of traversals made.
MaxArraySteps == 2

\* The source: an Enumerable over the array object heap[1] as it is now.
Source(arrays) == Enumerable(arrays[1])

\* A toArray that hands out the array the source is constructed over.
toArray_array_sameArray(arrays, s) == [arrays |-> arrays, ref |-> 1]

\* s.toArray(): var array = []; ... array.push(enumerator.current()); ...
\* return array;  The arrays after the call and the one returned.
toArray_array(arrays, s) ==
    [arrays |-> Append(arrays, toArray(s)), ref |-> Len(arrays) + 1]

\* array.sort(function(a, b) { ... }) on the array object ref
Array_sort_inPlace(arrays, ref, selectors) ==
    [arrays EXCEPT ![ref] = Array_sort(@, selectors)]

\* array.reverse() on the array object ref
Array_reverse_inPlace(arrays, ref) ==
    [arrays EXCEPT ![ref] = Array_reverse(@)]

InitArrays ==
    /\ input \in {[kind |-> "arrays", array |-> a] :
                    a \in ArraysOf(OrderedValues, MaxPartLen)}
    /\ seq = Null
    /\ want = 0
    /\ heap = <<input.array>>
    /\ handle = <<>>
    /\ solo = <<>>
    /\ hist = <<>>
    /\ last = NoCall
    /\ steps = 0
    /\ pc = "ready"
    /\ result = <<>>

\* source.orderBy(k1).thenBy(k2)... .toArray(): lazyInitialize copies the
\* source with toArray(), sorts the copy and the traversal reads it.
OrderedTraversalAction ==
    /\ steps < MaxArraySteps
    /\ \E chain \in Chains :
        \E t \in {toArray_array(heap, Source(heap))} :
        \E sorted \in {Array_sort_inPlace(
                           t.arrays, t.ref,
                           BuildOrder(heap[1], chain, Len(chain)).selectors)} :
          /\ heap' = sorted
          /\ result' = toArray(Enumerable(sorted[t.ref]))
          /\ last' = [op |-> "orderBy", chain |-> chain, ref |-> t.ref]
    /\ steps' = steps + 1
    /\ UNCHANGED <<input, seq, want, handle, solo, hist, pc>>

\* source.reverse().toArray(): the first moveNext reverses a copy made
\* with toArray() and the traversal reads it.
ReverseTraversalAction ==
    /\ steps < MaxArraySteps
    /\ \E t \in {toArray_array(heap, Source(heap))} :
        \E reversed \in {Array_reverse_inPlace(t.arrays, t.ref)} :
          /\ heap' = reversed
          /\ result' = toArray(Enumerable(reversed[t.ref]))
          /\ last' = [op |-> "reverse", chain |-> <<>>, ref |-> t.ref]
    /\ steps' = steps + 1
    /\ UNCHANGED <<input, seq, want, handle, solo, hist, pc>>

\* A fresh enumeration of the source.
SourceTraversalAction ==
    /\ steps < MaxArraySteps
    /\ result' = toArray(Source(heap))
    /\ last' = [op |-> "source", chain |-> <<>>, ref |-> 1]
    /\ steps' = steps + 1
    /\ UNCHANGED <<input, seq, want, heap, handle, solo, hist, pc>>

NextArrays ==
    \/ OrderedTraversalAction
    \/ ReverseTraversalAction
    \/ SourceTraversalAction

SpecArrays == InitArrays /\ [][NextArrays]_vars

\* ------------------------------------------------------------ the claims

\* The elements an enumerator still yields when it is driven to exhaustion.
Drain(e) == toArray_while(e, <<>>)

\* The enumerator the consumer's h-th handle refers to.
Enum(h) == heap[handle[h]]

\* C1: for a join enumerator, reset() after any number of moveNext calls
\* and then a traversal to exhaustion yields the result sequence a fresh
\* enumerator of the same join yields.
C1_JoinResetReplays ==
    (last.op = "reset" /\ seq.op = "join")
        => Drain(Enum(last.h)) = toArray(seq)

\* The operators C2 is about.
C2_Operators ==
    {"where", "select", "selectMany", "takeWhile", "skipWhile", "concat",
     "distinct", "reverse", "orderBy", "groupBy", "groupJoin"}

\* C2: for an enumerator of where, select, selectMany, takeWhile,
\* skipWhile, concat, distinct, reverse, orderBy, groupBy or groupJoin,
\* reset() after any number of moveNext calls (none, some, or past
\* exhaustion) and then a traversal to exhaustion yields the element
\* sequence a fresh enumerator of the same sequence yields.
C2_ResetReplays ==
    (last.op = "reset" /\ seq.op \in C2_Operators)
        => Drain(Enum(last.h)) = toArray(seq)

\* C2's case: distinct is reset partway through a source that holds a
\* repeated element, after the repeated element went into the hash.
C2_Witness ==
    /\ last.op = "reset"
    /\ seq.op = "distinct"
    /\ seq.source.op = "Enumerable"
    /\ hist[last.h].lastMove = "true"
    /\ hist[last.h].moves = 1
    /\ Len(seq.source.value) = 2
    /\ Len(toArray(seq)) = 1

\* C3: current() raises InvalidOperationException when no moveNext call
\* has yet returned true, and when the most recent moveNext call returned
\* false.
C3_CurrentThrows ==
    (/\ last.op = "current"
     /\ \/ ~hist[last.h].everTrue
        \/ hist[last.h].lastMove = "false")
        => last.value = Throw

\* C4: after reset() and before the next moveNext call that returns true,
\* current() raises InvalidOperationException, whatever happened before
\* the reset.
C4_CurrentThrowsAfterReset ==
    (last.op = "current" /\ ~hist[last.h].sinceReset) => last.value = Throw

\* No cursor of a parent or inner sequence has left the pre-first position
\* and no buffer or hash has been filled.
RECURSIVE Untouched(_)
Untouched(e) ==
    CASE e.op = "Enumerable" -> e.index = -1
      [] e.op \in {"range", "repeat"} -> e.index = -1
      [] e.op \in {"where", "select"} -> Untouched(e.itemEnumerator)
      [] e.op = "selectMany" ->
            Untouched(e.itemEnumerator) /\ IsNull(e.subItemEnumerator)
      [] e.op \in {"takeWhile", "skipWhile"} -> Untouched(e.enumerator)
      [] e.op = "concat" ->
            Untouched(e.firstEnumerator) /\ Untouched(e.secondEnumerator)
      [] e.op = "distinct" ->
            /\ Untouched(e.enumerator)
            /\ e.hash.primitiveItems = <<>>
            /\ e.hash.complexItems = <<>>
      [] e.op = "reverse" -> IsNull(e.enumerator)
      [] e.op = "orderBy" -> IsNull(e.itemEnumerator)
      [] e.op = "groupBy" -> IsNull(e.resultSet)
      [] e.op \in {"join", "groupJoin"} ->
            IsNull(e.hash) /\ Untouched(e.enumerator)

\* C5: building an operator sequence and calling getEnumerator() on it
\* moves no parent or inner enumerator: until the first moveNext call on
\* the operator's enumerator every parent cursor is before its first
\* element and nothing is buffered, hashed or sorted.
C5_NothingConsumedBeforeMoveNext ==
    \A h \in 1..Len(handle) : hist[h].moves = 0 => Untouched(Enum(h))

\* C5's case: getEnumerator() was just called on an orderBy over a source
\* that has elements to sort.
C5_Witness ==
    /\ last.op = "getEnumerator"
    /\ seq.op = "orderBy"
    /\ seq.source.op = "Enumerable"
    /\ Len(seq.source.value) = 2

\* C6: two enumerators of one sequence share no state: under every
\* interleaving of calls each call returns what it returns on an enumerator
\* that is driven alone, and each enumerator goes on to yield what the
\* lone one yields.
C6_EnumeratorsIndependent ==
    /\ last.moved = last.soloMoved
    /\ last.value = last.soloValue
    /\ \A h \in 1..Len(handle) : Drain(Enum(h)) = Drain(solo[h])

\* C6's case: both enumerators have been moved, the second after the
\* first, and they stand at different positions.
C6_Witness ==
    /\ Len(handle) = 2
    /\ hist[1].moves = 2
    /\ hist[2].moves = 1
    /\ last.op = "current"
    /\ last.h = 2
    /\ last.value # Throw
    /\ seq.op = "join"


\* What a chain k1, k2, ..., kn says about two elements: the first link
\* that tells them apart decides, in its own direction.
RECURSIVE ChainCompare(_, _, _, _)
ChainCompare(chain, i, a, b) ==
    IF i > Len(chain) THEN 0
    ELSE LET c == Compare(chain[i].comparer,
                          Selector(chain[i].keySelector, a, Undefined),
                          Selector(chain[i].keySelector, b, Undefined))
                  * chain[i].direction
         IN IF c # 0 THEN c ELSE ChainCompare(chain, i + 1, a, b)

\* out holds the elements of array, ordered by the chain, elements the
\* chain does not tell apart in the order they have in array.
IsStableSort(out, array, chain) ==
    \E p \in Permutations(1..Len(array)) :
        /\ out = [i \in 1..Len(array) |-> array[p[i]]]
        /\ \A i, j \in 1..Len(array) :
              i < j =>
                 LET c == ChainCompare(chain, 1, array[p[i]], array[p[j]])
                 IN c < 0 \/ (c = 0 /\ p[i] < p[j])

\* C7: a full traversal of orderBy/orderByDescending(k1) followed by
\* thenBy/thenByDescending(k2..kn) yields the source elements stably sorted
\* by (k1, ..., kn), k1 most significant, each key in its link's direction.
C7_StableLexicographicOrder ==
    (pc = "done" /\ input.kind = "order")
        => IsStableSort(result, input.array, input.chain)

\* C7's case: a two-link chain over three different elements, two of which
\* the chain does not tell apart, and the traversal reordered them.
C7_Witness ==
    /\ pc = "done"
    /\ input.kind = "order"
    /\ Len(input.chain) = 2
    /\ Len(input.array) = 3
    /\ result # input.array
    /\ \E i, j \in 1..3 :
          /\ i < j
          /\ input.array[i] # input.array[j]
          /\ ChainCompare(input.chain, 1, input.array[i], input.array[j]) = 0

\* The inner elements whose key equals the key of the outer element o.
Matches(in, o) ==
    SelectSeq(in.inner,
              LAMBDA i : Equals(in.comparer,
                                Selector(in.innerKeySelector, i, Undefined),
                                Selector(in.outerKeySelector, o, Undefined)))

\* The pairs (o, i) with equal keys, by position of o, then of i.
RECURSIVE JoinPairs(_, _)
JoinPairs(in, k) ==
    IF k > Len(in.outer) THEN <<>>
    ELSE [j \in 1..Len(Matches(in, in.outer[k])) |->
             <<in.outer[k], Matches(in, in.outer[k])[j]>>]
         \o JoinPairs(in, k + 1)

\* C8: a full traversal of join yields one result per pair (o, i) with
\* equal keys, ordered by the position of o in the outer sequence and then
\* by the position of i in the inner sequence.
C8_JoinPairs ==
    (pc = "done" /\ input.kind = "join" /\ ~input.group)
        => result = JoinPairs(input, 1)

\* C8's case: an outer element with two matches, after an outer element
\* with none.
C8_Witness ==
    /\ pc = "done"
    /\ input.kind = "join"
    /\ ~input.group
    /\ Len(input.outer) = 3
    /\ Len(Matches(input, input.outer[1])) = 0
    /\ Len(Matches(input, input.outer[2])) = 2
    /\ Len(result) >= 3

\* C9: a full traversal of groupJoin yields one result per outer element,
\* in outer order, each pairing the outer element with the inner elements
\* of equal key in inner order, none when there is no match.
C9_GroupJoinGroups ==
    (pc = "done" /\ input.kind = "join" /\ input.group)
        => result = [k \in 1..Len(input.outer) |->
                        <<input.outer[k], Matches(input, input.outer[k])>>]

\* C9's case: one outer element has no match, another has two.
C9_Witness ==
    /\ pc = "done"
    /\ input.kind = "join"
    /\ input.group
    /\ Len(input.outer) = 2
    /\ Len(Matches(input, input.outer[1])) = 0
    /\ Len(Matches(input, input.outer[2])) = 2
    /\ Len(result) = 2

\* The elements of array no earlier element is equal to.
RECURSIVE FirstOccurrences(_, _, _)
FirstOccurrences(array, comparer, i) ==
    IF i > Len(array) THEN <<>>
    ELSE (IF \E j \in 1..(i - 1) : Equals(comparer, array[j], array[i])
          THEN <<>> ELSE <<array[i]>>)
         \o FirstOccurrences(array, comparer, i + 1)

\* C10: a full traversal of distinct(comparer?) yields, in input order, the
\* first occurrence of each equality class of the source: an element is
\* emitted if and only if no earlier source element is equal to it.
C10_DistinctFirstOccurrences ==
    (pc = "done" /\ input.kind = "distinct")
        => result = FirstOccurrences(input.array, input.comparer, 1)

\* The comparer a union goes by: the one given, or the default one.
UnionComparer(in) == IF in.hasComparer THEN in.comparer ELSE Default

\* C11: first.union(second, comparer) yields what
\* first.concat(second).distinct(comparer) yields: the elements of first
\* followed by those of second, only the first occurrence of each
\* comparer-equality class, in order of first occurrence.
C11_UnionIsConcatDistinct ==
    (pc = "done" /\ input.kind = "union")
        => /\ result = toArray(distinct(concat(Enumerable(input.first),
                                                Enumerable(input.second)),
                                         TRUE, UnionComparer(input)))
           /\ result = FirstOccurrences(input.first \o input.second,
                                        UnionComparer(input), 1)

\* C11's case: a union without a comparer whose second sequence repeats an
\* element of the first and brings the string "constructor".
C11_Witness ==
    /\ pc = "done"
    /\ input.kind = "union"
    /\ ~input.hasComparer
    /\ input.first = <<1, 0>>
    /\ input.second = <<0, StrConstructor>>
    /\ result = <<1, 0, StrConstructor>>

\* C12: a full traversal of where(p) yields the source elements that
\* satisfy p, each as often as it occurs in the source, in source order.
C12_WhereFilters ==
    (pc = "done" /\ input.kind = "where")
        => result = SelectSeq(input.array,
                              LAMBDA x : Predicate(input.predicate, x, Undefined))

\* C12's case: an element that satisfies p occurs twice, with a rejected
\* element between the two occurrences.
C12_Witness ==
    /\ pc = "done"
    /\ input.kind = "where"
    /\ input.array = <<1, 3, 1>>
    /\ input.predicate = Fn("lt", 2)
    /\ result = <<1, 1>>

\* C13: for functions f and g of one argument, source.select(f).select(g)
\* yields the element sequence source.select(x => g(f(x))) yields.
C13_SelectComposes ==
    (pc = "done" /\ input.kind = "select")
        => result = toArray(select(Enumerable(input.array),
                                   Compose(input.f, input.g)))

\* C13's case: two functions that do not commute, over a source on which
\* g alone gives another result.
C13_Witness ==
    /\ pc = "done"
    /\ input.kind = "select"
    /\ input.array = <<0, 1, 2>>
    /\ input.f = Fn("add", 1)
    /\ input.g = Fn("mod", 2)
    /\ result = <<1, 0, 1>>

\* What the operator an ...OrDefault call wraps does on the same source.
WrappedCall(in) ==
    CASE in.kind = "firstOrDefault" -> first(seq, in.hasPredicate, in.predicate)
      [] in.kind = "lastOrDefault" -> last_(seq, in.hasPredicate, in.predicate)
      [] in.kind = "singleOrDefault" -> single(seq, in.hasPredicate, in.predicate)
      [] in.kind = "elementAtOrDefault" -> elementAt(seq, in.index)

\* C14: firstOrDefault, lastOrDefault, singleOrDefault and
\* elementAtOrDefault return the default value only for the structural
\* failure they tolerate; a failure raised by a callback during the
\* traversal reaches the caller and is never replaced by the default value.
C14_DefaultMasksNoCallbackFailure ==
    (/\ pc = "done"
     /\ input.kind \in {"firstOrDefault", "lastOrDefault", "singleOrDefault",
                         "elementAtOrDefault"})
        => /\ WrappedCall(input).exception = "callback"
                => result = Raise("callback")
           /\ WrappedCall(input).exception
                    \in {"InvalidOperationException",
                         "ArgumentOutOfRangeException"}
                => result = Return(input.defaultValue)
           /\ WrappedCall(input).exception = "none"
                => result = WrappedCall(input)

\* The source elements single's predicate accepts; all when there is none.
SingleMatches(in) ==
    SelectSeq(seq.value,
              LAMBDA x : ~in.hasPredicate \/ Predicate(in.predicate, x, Undefined))

\* C17 as stated: single(p) returns the matching element whenever exactly
\* one element of the source satisfies p, however many other elements the
\* source holds, and raises InvalidOperationException when none or more
\* than one satisfies p; single() is the case where p is always true.
C17_SingleByPredicate ==
    (pc = "done" /\ input.kind = "single" /\ input.predicate.fn # "throwsOn")
        => result = IF Len(SingleMatches(input)) = 1
                    THEN Return(SingleMatches(input)[1])
                    ELSE Raise("InvalidOperationException")

\* C17 as amended: single(p) returns the only element of the source when
\* the source holds exactly one element and that element satisfies p, and
\* raises InvalidOperationException otherwise: the source is empty, holds
\* more than one element, or its only element does not satisfy p;
\* single() is the case where p is always true.
C17_SingleOfOneElement ==
    (pc = "done" /\ input.kind = "single" /\ input.predicate.fn # "throwsOn")
        => result = IF Len(seq.value) = 1 /\ Len(SingleMatches(input)) = 1
                    THEN Return(seq.value[1])
                    ELSE Raise("InvalidOperationException")

\* C17's case: exactly one of two elements satisfies p, and it comes first.
C17_Witness ==
    /\ pc = "done"
    /\ input.kind = "single"
    /\ input.hasPredicate
    /\ input.predicate = Fn("lt", 2)
    /\ seq.value = <<1, 3>>
    /\ result = Raise("InvalidOperationException")

\* C18: for a source of n elements elementAt(i) returns the element at
\* position i when 0 <= i < n and raises ArgumentOutOfRangeException for
\* every other integer i; elementAtOrDefault(i, d) returns the same
\* element when 0 <= i < n and d otherwise.
C18_ElementAt ==
    (pc = "done" /\ input.kind \in {"elementAt", "elementAtOrDefault"})
        => result = IF 0 <= input.index /\ input.index < Len(seq.value)
                    THEN Return(seq.value[input.index + 1])
                    ELSE IF input.kind = "elementAt"
                    THEN Raise("ArgumentOutOfRangeException")
                    ELSE Return(input.defaultValue)

\* C18's case: the index just behind the last element of a source of
\* three, handed to elementAtOrDefault.
C18_Witness ==
    /\ pc = "done"
    /\ input.kind = "elementAtOrDefault"
    /\ Len(seq.value) = 3
    /\ input.index = 3
    /\ result = Return(input.defaultValue)

\* C20: a.sequenceEqual(b, comparer) returns true if and only if a and b
\* have the same number of elements and the elements at every position are
\* comparer-equal; it returns false when one is a strict prefix of the
\* other.
C20_SequenceEqual ==
    (pc = "done" /\ input.kind = "sequenceEqual")
        => result =
              Return(/\ Len(seq.value) = Len(input.second)
                     /\ \A i \in 1..Len(seq.value) :
                           Equals(IF input.hasComparer THEN input.comparer
                                  ELSE Default,
                                  seq.value[i], input.second[i]))

\* C15: once a key has been put with a value, whatever the value (0,
\* false, the empty string, null and undefined included), get returns the
\* value and keyExists is true; get on a key that was never put raises the
\* not-found signal; for a Hash with or without a comparer.
C15_GetReturnsWhatWasPut ==
    /\ last.op = "get" => last.returned = Bound(heap[1], hist, last.key)
    /\ last.op = "keyExists"
          => last.returned = (Bound(heap[1], hist, last.key) # <<>>)

\* The bindings a Hash holds, and the key a binding of key is held under.
Entries(hash) == hash.primitiveItems \o hash.complexItems

StoredKey(hash, key) == IF ComparerIsNull(hash) THEN PropertyKey(key) ELSE key

\* C16: put(key, value, overwrite) inserts the binding and returns true
\* when the key is absent; returns false and leaves the binding as it is
\* when the key is present and overwrite is false; replaces the element
\* and returns true when the key is present and overwrite is true; the
\* bindings of all other keys stay as they are.
C16_PutWritesOneBinding ==
    last.op = "put"
        => /\ last.returned =
                 (\/ Bound(last.before, Entries(last.before),
                           StoredKey(last.before, last.key)) = <<>>
                  \/ last.overwrite)
           /\ Entries(heap[1]) =
                 BoundAfterPut(last.before, Entries(last.before),
                               StoredKey(last.before, last.key),
                               last.value, last.overwrite)

\* C19: on a takeWhile (and take) enumerator, once a moveNext call has
\* returned false every later moveNext call returns false and leaves the
\* enumerator as it is (the parent is not advanced, the predicate not
\* invoked), even if later parent elements satisfy the predicate; until
\* reset() is called.
C19_TakeWhileStaysClosed ==
    [][\A h \in 1..Len(handle) :
          (/\ seq.op = "takeWhile"
           /\ hist[h].closed
           /\ last'.op = "moveNext"
           /\ last'.h = h)
             => /\ ~last'.moved
                /\ heap'[handle[h]] = heap[handle[h]]]_vars

\* C19's case: the first moveNext returned false on an element the
\* predicate rejects, the next parent element satisfies the predicate, and
\* a second moveNext has been called.
C19_Witness ==
    /\ seq.op = "takeWhile"
    /\ seq.predicate = Fn("lt", 1)
    /\ seq.source = Enumerable(<<1, 0>>)
    /\ Len(handle) = 1
    /\ hist[1].closed
    /\ hist[1].moves = 2
    /\ last.op = "moveNext"
    /\ ~last.moved
    /\ Enum(1).enumerator.index = 0

\* The elements of array that are equal to no element of other.
RECURSIVE Without(_, _, _, _)
Without(array, other, comparer, i) ==
    IF i > Len(array) THEN <<>>
    ELSE (IF \E j \in 1..Len(other) : Equals(comparer, array[i], other[j])
          THEN <<>> ELSE <<array[i]>>)
         \o Without(array, other, comparer, i + 1)

\* C21: first.except(second, comparer) yields the set difference: the
\* elements of first that have no comparer-equal element in second, in
\* first's order, and no two of them comparer-equal (the first occurrence
\* of each class only).
C21_ExceptIsSetDifference ==
    (pc = "done" /\ input.kind = "except")
        => result = FirstOccurrences(Without(input.first, input.second,
                                             UnionComparer(input), 1),
                                     UnionComparer(input), 1)

\* The links of chain from position i on, up to and including the first
\* one whose keys of a and b differ.
RECURSIVE UpToFirstDifference(_, _, _, _)
UpToFirstDifference(chain, i, a, b) ==
    IF i > Len(chain) THEN <<>>
    ELSE IF Compare(chain[i].comparer,
                    Selector(chain[i].keySelector, a, Undefined),
                    Selector(chain[i].keySelector, b, Undefined)) # 0
         THEN <<chain[i]>>
         ELSE <<chain[i]>> \o UpToFirstDifference(chain, i + 1, a, b)

\* The chain with its last link first.
Reversed(chain) == [i \in 1..Len(chain) |-> chain[Len(chain) + 1 - i]]

\* The links the comparator of the sequence calls for a and b.
Compared(a, b) == orderBy_for(seq.selectors, Len(seq.selectors), a, b, <<>>)

\* C22 as stated: comparing two elements under orderBy(k1).thenBy(k2)...
\* thenBy(kn), the comparator goes from the link of the last thenBy to k1
\* and returns at the first non-zero comparison.
C22_LastAppendedFirst ==
    (pc = "done" /\ input.kind = "order")
        => \A i, j \in 1..Len(input.array) :
              Compared(input.array[i], input.array[j]).called
                  = UpToFirstDifference(Reversed(input.chain), 1,
                                        input.array[i], input.array[j])

\* C22: comparing two elements under orderBy(k1).thenBy(k2)...thenBy(kn),
\* the comparator goes from k1 to the link of the last thenBy: it calls the
\* links in the order they were appended, stops at the first link whose
\* comparison is not zero and returns that comparison times the link's
\* direction, or zero when every link compares equal.
C22_FirstAppendedFirst ==
    (pc = "done" /\ input.kind = "order")
        => \A i, j \in 1..Len(input.array) :
              /\ Compared(input.array[i], input.array[j]).called
                    = UpToFirstDifference(input.chain, 1,
                                          input.array[i], input.array[j])
              /\ Compared(input.array[i], input.array[j]).result
                    = ChainCompare(input.chain, 1,
                                   input.array[i], input.array[j])

\* C22's case: a sorted chain of two different links and two elements that
\* differ in the first key only, so that the comparator stops at k1.
C22_Witness ==
    /\ pc = "done"
    /\ input.kind = "order"
    /\ Len(input.chain) = 2
    /\ input.chain[1].keySelector = Fn("mod", 2)
    /\ input.chain[2].keySelector = Fn("div", 2)
    /\ input.array = <<1, 0>>
    /\ Compared(1, 0).called = <<input.chain[1]>>

\* C23: thenBy and thenByDescending leave the sequence they are called on
\* unchanged: every ordered sequence keeps the source and the chain of
\* selectors it was built with whatever is called on it later, all its
\* traversals, before and after such calls, return the same array, the
\* source sorted by its own chain; and the sequence returned sorts the
\* original source itself by the whole chain: its source is the unsorted
\* sequence, not the sequence thenBy was called on.
C23_ThenByLeavesReceiver ==
    input.kind = "ordered"
        => \A s \in 1..Len(heap) :
              /\ heap[s].source = seq
              /\ heap[s].selectors = Reversed(handle[s].chain)
              /\ \A n \in 1..Len(hist[s]) :
                    /\ hist[s][n].result = hist[s][1].result
                    /\ IsStableSort(hist[s][n].result, input.array,
                                     handle[s].chain)

\* C23's case: a sequence traversed, then thenBy called on it with a link
\* that reorders its elements, then the sequence traversed again.
C23_Witness ==
    /\ input.kind = "ordered"
    /\ Len(heap) >= 2
    /\ handle[2].parent = 1
    /\ Len(hist[1]) = 2
    /\ hist[1][1].objects = 1
    /\ hist[1][2].objects = 2
    /\ toArray(heap[2]) # hist[1][1].result

\* The operators that buffer a whole sequence.
C24_Operators == {"orderBy", "reverse", "groupBy", "join", "groupJoin"}

\* What an enumerator keeps of the sequence it buffers: the sorted or
\* reversed array, the groups, or the hash of the inner sequence.
Buffer(e) ==
    CASE e.op = "orderBy" ->
            IF IsNull(e.itemEnumerator) THEN Null ELSE e.itemEnumerator.value
      [] e.op = "reverse" ->
            IF IsNull(e.enumerator) THEN Null ELSE e.enumerator.value
      [] e.op = "groupBy" -> e.resultSet
      [] e.op \in {"join", "groupJoin"} -> e.hash

\* C24: an enumerator of orderBy, reverse, groupBy, join or groupJoin
\* enumerates the sequence it buffers (the source; the inner sequence for
\* join and groupJoin) exactly once, in its first moveNext call: not
\* before, and not again whatever moveNext and reset calls follow; what it
\* buffered then is what it holds ever after.
C24_BufferedOnce ==
    \A h \in 1..Len(handle) :
        Enum(h).op \in C24_Operators
            => /\ Enum(h).enumerated = (IF hist[h].moves = 0 THEN 0 ELSE 1)
               /\ Buffer(Enum(h))
                    = (IF hist[h].moves = 0 THEN Null
                       ELSE Buffer(moveNext(getEnumerator(seq)).e))

\* C24's case: an orderBy enumerator over two elements was moved, reset
\* and moved again.
C24_Witness ==
    /\ last.op = "moveNext"
    /\ last.moved
    /\ seq.op = "orderBy"
    /\ hist[last.h].rewound
    /\ Len(Buffer(Enum(last.h))) = 2

\* For the join s of two arrays: the position in the outer array of the
\* element each result comes from, one entry per result, from outer
\* position i on.
RECURSIVE Producers(_, _)
Producers(s, i) ==
    IF i > Len(s.source.value) THEN <<>>
    ELSE [n \in 1..Cardinality(
                    {j \in 1..Len(s.second.value) :
                        Equals(s.comparer,
                               Selector(s.outerKeySelector, s.source.value[i],
                                        Undefined),
                               Selector(s.innerKeySelector, s.second.value[j],
                                        Undefined))}) |-> i]
         \o Producers(s, i + 1)

\* C25: join streams its results.  When the k-th moveNext call on a join
\* enumerator (one not reset since it was first moved) returns true, the
\* outer enumerator stands on the outer element the k-th result comes
\* from, no further; so the results of one bucket follow each other
\* without moving the outer enumerator.
C25_JoinStreams ==
    \A h \in 1..Len(handle) :
        (Enum(h).op = "join" /\ ~hist[h].rewound /\ hist[h].lastMove = "true")
            => /\ hist[h].moves <= Len(Producers(seq, 1))
               /\ Enum(h).enumerator.index + 1
                    = Producers(seq, 1)[hist[h].moves]
               /\ Enum(h).firstElement
                    = seq.source.value[Producers(seq, 1)[hist[h].moves]]

\* C25's case: the first outer element has no match and the second one
\* has two; the second result was produced, from the same bucket as the
\* first.
C25_Witness ==
    /\ seq.op = "join"
    /\ seq.source.op = "Enumerable"
    /\ Producers(seq, 1) = <<2, 2>>
    /\ Len(handle) = 1
    /\ ~hist[1].rewound
    /\ hist[1].lastMove = "true"
    /\ hist[1].moves = 2

\* How many elements of array, from position i on, satisfy the predicate
\* before the first one that does not.
RECURSIVE PrefixLen(_, _, _)
PrefixLen(array, predicate, i) ==
    IF i > Len(array) THEN 0
    ELSE IF Predicate(predicate, array[i], i - 1)
         THEN 1 + PrefixLen(array, predicate, i + 1)
         ELSE 0

\* The smaller of two numbers.
Min(a, b) == IF a < b THEN a ELSE b

\* C26: a skipWhile(p) enumerator scans the prefix in the first moveNext
\* call after creation or reset and in no other: from then on the number of
\* calls of p stays what the scan made it, one per skipped element and one
\* for the first element that fails p, so p is called on no element behind
\* that one; and a full traversal yields the source from the first element
\* that fails p to the end, later elements that satisfy p included.
C26_SkipWhileScansOnce ==
    seq.op = "skipWhile"
        => LET source == toArray(seq.source)
               skipped == PrefixLen(source, seq.predicate, 1)
           IN /\ toArray(seq) = SubSeq(source, skipped + 1, Len(source))
              /\ \A h \in 1..Len(handle) :
                    /\ Enum(h).isInitialized
                          = (hist[h].sinceReset \/ hist[h].closed)
                    /\ Enum(h).index
                          = (IF Enum(h).isInitialized
                             THEN Min(skipped + 1, Len(source)) ELSE 0)

\* C26's case: the first element fails p and the second one satisfies it;
\* the enumerator was moved, reset and moved onto the second element.
C26_Witness ==
    /\ seq.op = "skipWhile"
    /\ seq.source.op = "Enumerable"
    /\ Len(seq.source.value) = 2
    /\ ~Predicate(seq.predicate, seq.source.value[1], 0)
    /\ Predicate(seq.predicate, seq.source.value[2], 1)
    /\ Len(handle) = 1
    /\ hist[1].rewound
    /\ hist[1].sinceReset
    /\ hist[1].moves = 3
    /\ last.op = "current"
    /\ last.value = <<seq.source.value[2]>>

\* The positions of the complex items whose key the comparer the Hash was
\* constructed with takes for key.
Scanned(hash, key) ==
    {i \in 1..Len(hash.complexItems) :
        Equals(input.comparer, hash.complexItems[i].key, key)}

\* The least member of a non-empty set of numbers.
Least(S) == CHOOSE i \in S : \A j \in S : i <= j

\* The keys kept in the primitive bucket: strings, numbers and booleans.
PrimitiveTypes == {"string", "number", "boolean"}

\* C27: a Hash constructed with a comparer, the default one included,
\* keeps its primitive bucket empty and answers every lookUp from the first
\* complex item comparer.equals takes for the key, a new key going behind
\* the complex items; a Hash constructed with no comparer keeps in the
\* primitive bucket the string, number and boolean keys only, and every
\* other key among the complex items.
C27_ComparerMeansLinearScan ==
    input.kind = "hash"
        => /\ input.comparer # NoComparer
                => /\ heap[1].primitiveItems = <<>>
                   /\ last.op = "keyExists"
                         => last.returned = (Scanned(heap[1], last.key) # {})
                   /\ last.op = "get"
                         => last.returned =
                               (IF Scanned(heap[1], last.key) = {} THEN <<>>
                                ELSE <<heap[1].complexItems[
                                          Least(Scanned(heap[1], last.key))
                                       ].element>>)
                   /\ (last.op = "put" /\ Scanned(last.before, last.key) = {})
                         => heap[1].complexItems =
                               Append(last.before.complexItems,
                                      [key |-> last.key, element |-> last.value])
                   /\ (last.op = "put" /\ Scanned(last.before, last.key) # {})
                         => heap[1].complexItems =
                               (IF last.overwrite
                                THEN [last.before.complexItems EXCEPT
                                        ![Least(Scanned(last.before, last.key))]
                                            .element = last.value]
                                ELSE last.before.complexItems)
           /\ input.comparer = NoComparer
                => /\ \A i \in 1..Len(heap[1].primitiveItems) :
                         \E key \in HashKeys(heap[1]) :
                            /\ TypeOf(key) \in PrimitiveTypes
                            /\ heap[1].primitiveItems[i].key = PropertyKey(key)
                   /\ \A i \in 1..Len(heap[1].complexItems) :
                         TypeOf(heap[1].complexItems[i].key) \notin PrimitiveTypes
                   /\ last.op = "put"
                         => IF TypeOf(last.key) \in PrimitiveTypes
                            THEN heap[1].complexItems = last.before.complexItems
                            ELSE heap[1].primitiveItems
                                    = last.before.primitiveItems

\* C27's case: a Hash constructed with the default comparer holds the key
\* "constructor" and a number key, both among its complex items, and was
\* just asked for one of them.
C27_Witness ==
    /\ input.kind = "hash"
    /\ input.comparer = Default
    /\ Len(heap[1].complexItems) = 2
    /\ heap[1].complexItems[1].key = StrConstructor
    /\ last.op = "get"
    /\ last.key = 0
    /\ last.returned # <<>>

\* C27's other case: a Hash constructed with no comparer holds a number
\* key in its primitive bucket and the key null among its complex items.
C27_WitnessNoComparer ==
    /\ input.kind = "hash"
    /\ input.comparer = NoComparer
    /\ Len(heap[1].primitiveItems) = 1
    /\ Len(heap[1].complexItems) = 1
    /\ heap[1].complexItems[1].key = JSNull

\* The elements the source element at position i contributes: those of
\* collectionSelector(element, i - 1), each paired with the element when
\* there is a result selector.
Contribution(in, i) ==
    LET sub == toArray(CollectionSelector(in.collectionSelector,
                                          in.array[i], i - 1))
    IN [n \in 1..Len(sub) |->
          IF in.hasResultSelector THEN ResultSelector(in.array[i], sub[n])
          ELSE sub[n]]

\* The contributions of the source elements from position i on.
RECURSIVE Flattened(_, _)
Flattened(in, i) ==
    IF i > Len(in.array) THEN <<>>
    ELSE Contribution(in, i) \o Flattened(in, i + 1)

\* C28: a full traversal of selectMany(collectionSelector, resultSelector?)
\* yields, for each source element in order, every element of
\* collectionSelector(element, index) in the order of that sub-sequence,
\* mapped through resultSelector(element, subElement) when one is given;
\* an empty sub-sequence contributes nothing and does not end the
\* traversal; index counts the source elements from 0.
C28_SelectManyFlattens ==
    (pc = "done" /\ input.kind = "selectMany")
        => result = Flattened(input, 1)

\* C28's case: a source of three elements whose second sub-sequence is
\* empty and whose third is not.
C28_Witness ==
    /\ pc = "done"
    /\ input.kind = "selectMany"
    /\ Len(input.array) = 3
    /\ Contribution(input, 1) # <<>>
    /\ Contribution(input, 2) = <<>>
    /\ Len(Contribution(input, 3)) = 2
    /\ input.hasResultSelector
    /\ Len(result) = 3

\* func folded from the left over array from position i on.
RECURSIVE LeftFold(_, _, _, _)
LeftFold(array, running, func, i) ==
    IF i > Len(array) THEN running
    ELSE LeftFold(array, Accumulate(func, running, array[i]), func, i + 1)

\* C29: for a non-empty sequence s of any operator, join included,
\* s.aggregate(seed, f) is the left fold of f over the elements of
\* s.toArray(), from seed: every element is accumulated once, in the
\* order of the traversal.
C29_AggregateIsLeftFold ==
    (pc = "aggregated" /\ last.hasSeed /\ toArray(seq) # <<>>)
        => last.outcome = Return(LeftFold(toArray(seq), last.seed,
                                          last.func, 1))

\* The keys of the source elements, in source order.
Keys(in) ==
    [i \in 1..Len(in.array) |-> Selector(in.keySelector, in.array[i], Undefined)]

\* The images under the element selector of the source elements, from
\* position i on, whose key is equal to key.
RECURSIVE Members(_, _, _)
Members(in, key, i) ==
    IF i > Len(in.array) THEN <<>>
    ELSE (IF Equals(in.comparer, key, Keys(in)[i])
          THEN <<Selector(in.elementSelector, in.array[i], Undefined)>>
          ELSE <<>>)
         \o Members(in, key, i + 1)

\* C30: a full traversal of groupBy yields one group per equality class of
\* keys, in the order in which the keys first occur in the source; a group
\* has the key of the first element of its class and holds the images
\* under the element selector of all the source elements with an equal
\* key, in source order.
C30_GroupByGroups ==
    (pc = "done" /\ input.kind = "groupBy")
        => LET firstKeys == FirstOccurrences(Keys(input), input.comparer, 1)
           IN result = [g \in 1..Len(firstKeys) |->
                           ResultSelector(firstKeys[g],
                                          Members(input, firstKeys[g], 1))]

\* C30's case: three elements in two classes, the key that comes first
\* being the greater one and its class holding the first and the last
\* element.
C30_Witness ==
    /\ pc = "done"
    /\ input.kind = "groupBy"
    /\ Len(input.array) = 3
    /\ Keys(input)[1] > Keys(input)[2]
    /\ Equals(input.comparer, Keys(input)[1], Keys(input)[3])
    /\ Len(result) = 2
    /\ Len(result[1][2]) = 2

\* C31: for every enumerator over a finite source (an array, range, repeat,
\* and every operator over them, concat on its second parent included),
\* once a moveNext call has returned false every later moveNext call
\* returns false, until reset() is called.
C31_MoveNextStaysFalse ==
    [][\A h \in 1..Len(handle) :
          (/\ hist[h].closed
           /\ last'.op = "moveNext"
           /\ last'.h = h)
             => ~last'.moved]_vars

\* C31's case: a concat of two arrays of one element was moved through
\* both parents, returned false, and was moved once more.
C31_Witness ==
    /\ seq.op = "concat"
    /\ Len(toArray(seq.source)) = 1
    /\ Len(toArray(seq.second)) = 1
    /\ Len(handle) = 1
    /\ ~hist[1].rewound
    /\ hist[1].moves = 4
    /\ hist[1].closed
    /\ last.op = "moveNext"
    /\ ~last.moved
    /\ Enum(1).enumerator = "secondEnumerator"

\* No two bindings of the Hash have keys that are one key to it: the
\* property names of the primitive bucket differ, and no complex item
\* matches the key of another.
NoEqualKeys(hash) ==
    /\ \A i, j \in 1..Len(hash.primitiveItems) :
          i # j => hash.primitiveItems[i].key # hash.primitiveItems[j].key
    /\ \A i, j \in 1..Len(hash.complexItems) :
          i # j => ~ComplexMatch(hash, i, hash.complexItems[j].key)

\* C32: after any calls of put, get, keyExists and empty on a Hash whose
\* equality is an equivalence relation, no two bindings have equal keys;
\* keyExists and get, on a hit and on a miss, leave the bindings as they
\* were; and after empty() keyExists is false for every key.
C32_HashInvariants ==
    input.kind = "hash"
        => /\ NoEqualKeys(heap[1])
           /\ last.op \in {"get", "keyExists"} => heap[1] = last.before
           /\ last.op = "empty"
                => \A key \in HashKeys(heap[1]) : ~keyExists(heap[1], key)

\* C33: traversing an orderBy/thenBy or reverse sequence leaves the array
\* its source is constructed over as it was: after any such traversals the
\* array holds the same elements in the same order, the traversal having
\* read an array of its own, and a fresh enumeration of the source yields
\* them.
C33_SourceArrayUntouched ==
    input.kind = "arrays"
        => /\ heap[1] = input.array
           /\ last.op \in {"orderBy", "reverse"} => last.ref # 1
           /\ last.op = "source" => result = input.array

\* C33's case: a traversal that put the two elements of the source in
\* another order, and then a fresh enumeration of the source.
C33_Witness ==
    /\ input.kind = "arrays"
    /\ Len(input.array) = 2
    /\ Len(heap) = 2
    /\ heap[2] # input.array
    /\ last.op = "source"
    /\ result = input.array

====
